---- MODULE Spec2Model ----
(***************************************************************************)
(* Credential and session guard of src/src/auth.py: the failure table of   *)
(* the rate limiter (failed_login_attempts), the session table             *)
(* (active_sessions), the JWT helpers and authenticate_user.               *)
(*                                                                         *)
(* Strings the code takes apart (usernames, IP addresses, table keys) are  *)
(* sequences of one-character strings; time.time() is the variable now,    *)
(* in seconds.                                                             *)
(***************************************************************************)
EXTENDS Integers, Sequences, FiniteSets, TLC

VARIABLES
    now,                    \* the clock read by time.time() / datetime.utcnow()
    failed_login_attempts,  \* auth.py:31, key -> list of failure timestamps
    active_sessions,        \* auth.py:30, session id -> session dict
    jwt_env,                \* the environment variable JWT_SECRET_KEY
    tokens,                 \* the tokens create_jwt_token has returned
    last,                   \* what the last completed call returned, and what it did
    th,                     \* per thread: where its authenticate_user call is, and its locals
    max_size,               \* refactored_calculator.py:66, CalculationHistory.max_size
    _history,               \* refactored_calculator.py:67, CalculationHistory._history
    added,                  \* every result added since the history was last empty
    accounts                \* the table accounts of the database: id -> balance

\* the calculation history and the database, which the authentication calls
\* leave alone
calculator_and_database == <<max_size, _history, added, accounts>>

vars == <<now, failed_login_attempts, active_sessions, jwt_env, tokens, last,
          th, max_size, _history, added, accounts>>

\* ------------------------------------------------------------------ bounds

MaxTicks == 2           \* how often the clock advances in a behaviour of Spec
TickSeconds == 450      \* and by how much
MaxLongTicks == 3       \* the same for SpecSession and SpecToken
LongTickSeconds == 1800
MaxTokens == 2          \* tokens kept for a later verification
NumThreads == 2         \* threads of SpecConc, each making calls one after another
MaxConcTicks == 1       \* clock advances in SpecConc
ConcTickSeconds == 900
MaxBatch == 2           \* expressions in one call of batch_calculate
MaxSize == 3            \* the largest max_size of a CalculationHistory
MaxAdds == 5            \* results added between two moments the history is empty
InitialBalance == 2     \* the balance of account 1 at the start; account 2 holds 1

\* ------------------------------------------------------- program constants

window_seconds == 900
max_attempts == 5
session_timeout == 3600
token_lifetime == 3600
bcrypt_max == 72        \* the bytes of a password bcrypt.hashpw looks at
salt_length == 32       \* secrets.token_bytes(32)
digest_length == 32     \* the bytes of a SHA-256 digest

MsgFormat == "Invalid credentials format"
MsgRequired == "Username and password are required"
MsgRateLimited == "Too many failed attempts. Please try again later."
MsgUnavailable == "Authentication service temporarily unavailable"
MsgSuccess == "Authentication successful"
MsgInvalid == "Invalid username or password"

\* -------------------------------------------------------------- str helpers

\* the line feed, written as its code point
LineFeed == "U+000A"

Whitespace == {" ", LineFeed}

RECURSIVE lstrip(_)
lstrip(s) ==
    IF s # <<>> /\ Head(s) \in Whitespace THEN lstrip(Tail(s)) ELSE s

RECURSIVE rstrip(_)
rstrip(s) ==
    IF s # <<>> /\ s[Len(s)] \in Whitespace
    THEN rstrip(SubSeq(s, 1, Len(s) - 1))
    ELSE s

strip(s) == rstrip(lstrip(s))

\* The characters of the model: a str is a sequence of them. Printable holds
\* the printable ASCII characters in code point order (from 32), three of them
\* written as their code point, and two characters outside ASCII stand for the
\* rest of Unicode; the line feed is the one control character.
Printable ==
    <<" ", "!", "U+0022", "#", "$", "%", "&", "'", "(", ")", "*", "+", ",", "-", ".", "/",
      "0", "1", "2", "3", "4", "5", "6", "7", "8", "9", ":", ";", "<", "=", ">", "?",
      "@", "A", "B", "C", "D", "E", "F", "G", "H", "I", "J", "K", "L", "M", "N", "O",
      "P", "Q", "R", "S", "T", "U", "V", "W", "X", "Y", "Z", "[", "U+005C", "]", "^", "_",
      "U+0060", "a", "b", "c", "d", "e", "f", "g", "h", "i", "j", "k", "l", "m", "n", "o",
      "p", "q", "r", "s", "t", "u", "v", "w", "x", "y", "z", "{", "|", "}", "~">>
EAcuteUpper == "U+00C9"
EAcute == "U+00E9"
Chars ==
    {Printable[i] : i \in DOMAIN Printable} \cup {LineFeed, EAcuteUpper, EAcute}

\* ord(c) and chr(n)
CodePoints ==
    [c \in Chars |->
        CASE c = LineFeed -> 10
          [] c = EAcuteUpper -> 201
          [] c = EAcute -> 233
          [] OTHER -> 31 + CHOOSE i \in DOMAIN Printable : Printable[i] = c]
ord(c) == CodePoints[c]
chr(n) ==
    CASE n = 10 -> LineFeed
      [] n = 201 -> EAcuteUpper
      [] n = 233 -> EAcute
      [] OTHER -> Printable[n - 31]

\* c.isupper(), c.islower(), c.isdigit(), c.isalnum()
isupper(c) == (ord(c) >= 65 /\ ord(c) <= 90) \/ c = EAcuteUpper
islower(c) == (ord(c) >= 97 /\ ord(c) <= 122) \/ c = EAcute
isdigit(c) == ord(c) >= 48 /\ ord(c) <= 57
isalnum(c) == isupper(c) \/ islower(c) \/ isdigit(c)

lower_char(c) == IF isupper(c) THEN chr(ord(c) + 32) ELSE c

\* s.encode('utf-8'): one byte for an ASCII character, two up to U+07FF
utf8_char(c) ==
    IF ord(c) < 128 THEN <<ord(c)>>
    ELSE <<192 + (ord(c) \div 64), 128 + (ord(c) % 64)>>
RECURSIVE utf8(_)
utf8(s) ==
    CASE Len(s) = 0 -> <<>>
      [] Len(s) = 1 -> utf8_char(s[1])
      [] OTHER -> utf8(SubSeq(s, 1, Len(s) \div 2))
                  \o utf8(SubSeq(s, (Len(s) \div 2) + 1, Len(s)))

lower(s) == [i \in 1..Len(s) |-> lower_char(s[i])]

\* f"user:{username}" and f"ip:{ip_address}"
user_key(username) == <<"user:">> \o username
ip_key(ip_address) == <<"ip:">> \o ip_address

\* a value that is a str, and one that is not (isinstance(x, str))
Str(v) == [isstr |-> TRUE, val |-> v]
NotStrName == [isstr |-> FALSE, val |-> <<>>]
NotStrPw == [isstr |-> FALSE, val |-> <<>>]

\* ------------------------------------------------------------ the user store

\* What the password column of a users row can hold: a bcrypt hash string of a
\* password, a string that is no bcrypt hash (the plaintext 'admin123' row of
\* initialize_database), or bytes (api.py stores bcrypt.hashpw's bytes).
\* A bcrypt hash is kept as the bytes it was computed from: bcrypt takes the
\* first 72 bytes of a password and no more.
bcrypt_key(password_bytes) ==
    IF Len(password_bytes) > bcrypt_max
    THEN SubSeq(password_bytes, 1, bcrypt_max)
    ELSE password_bytes
BcryptHash(pw) == [kind |-> "bcrypt", pw |-> bcrypt_key(utf8(pw))]
PlainText == [kind |-> "malformed", pw |-> <<>>]
DummyHash == [kind |-> "dummy", pw |-> <<>>]

BytesHash == [kind |-> "bytes", pw |-> <<>>]

\* What bcrypt does with a password of more than 72 bytes: releases before
\* 5.0 hash its first 72 bytes, later ones raise ValueError.
LongPasswords == {"truncate", "raise"}
\* for a password of at most 72 bytes the releases agree
short_passwords == "truncate"

\* a row of the users table: (id, username, email, password)
UserRow(id, email, password) == <<id, email, email, password>>

\* get_user_by_email: cursor.fetchone() of the rows with that email, or None
NoRow == <<>>
get_user_by_email(users, email) ==
    IF \E r \in users : r[3] = email
    THEN CHOOSE r \in users : r[3] = email
    ELSE NoRow

\* bcrypt.checkpw(password, hashed): "true", "false", or "raise" (ValueError:
\* invalid salt) on a string that is no bcrypt hash
checkpw(password, hashed, long_passwords) ==
    CASE hashed.kind = "bcrypt" ->
             IF Len(password) > bcrypt_max /\ long_passwords = "raise"
             THEN "raise"
             ELSE IF hashed.pw = bcrypt_key(password) THEN "true" ELSE "false"
      [] hashed.kind = "dummy" -> "false"
      [] OTHER -> "raise"

\* AuthManager.hash_password: [raised, hash]
hash_password(password, long_passwords) ==
    IF ~password.isstr \/ Len(password.val) = 0
    THEN [raised |-> TRUE, hash |-> BytesHash]
    ELSE IF Len(utf8(password.val)) > bcrypt_max /\ long_passwords = "raise"
    THEN [raised |-> TRUE, hash |-> BytesHash]
    ELSE [raised |-> FALSE, hash |-> BcryptHash(password.val)]

\* AuthManager.verify_password: [ok, raised]
verify_password(stored_hash, provided_password, long_passwords) ==
    IF stored_hash.kind = "bytes" \/ ~provided_password.isstr
    THEN [ok |-> FALSE, raised |-> FALSE]
    ELSE LET r == checkpw(utf8(provided_password.val), stored_hash,
                          long_passwords)
         IN  [ok |-> r = "true", raised |-> r = "raise"]

\* ------------------------------------------------------------ SecureHasher

\* bytes.hex(): two lowercase digits for a byte
HexDigits ==
    <<"0", "1", "2", "3", "4", "5", "6", "7", "8", "9",
      "a", "b", "c", "d", "e", "f">>
hex_byte(b) == <<HexDigits[(b \div 16) + 1], HexDigits[(b % 16) + 1]>>
RECURSIVE hex(_)
hex(b) == IF b = <<>> THEN <<>> ELSE hex_byte(Head(b)) \o hex(Tail(b))

\* the value of a hexadecimal digit of either case, -1 for another character
hex_value(c) ==
    CASE isdigit(c) -> ord(c) - 48
      [] ord(c) >= 97 /\ ord(c) <= 102 -> ord(c) - 87
      [] ord(c) >= 65 /\ ord(c) <= 70 -> ord(c) - 55
      [] OTHER -> 0 - 1

\* bytes.fromhex(s): [raised, bytes]. Two digits make a byte, whitespace
\* between bytes is skipped, anything else raises ValueError.
RECURSIVE fromhex(_)
fromhex(s) ==
    IF s = <<>> THEN [raised |-> FALSE, bytes |-> <<>>]
    ELSE IF Head(s) \in Whitespace THEN fromhex(Tail(s))
    ELSE IF Len(s) < 2 \/ hex_value(s[1]) < 0 \/ hex_value(s[2]) < 0
    THEN [raised |-> TRUE, bytes |-> <<>>]
    ELSE LET rest == fromhex(SubSeq(s, 3, Len(s)))
         IN  [raised |-> rest.raised,
              bytes |-> IF rest.raised THEN <<>>
                        ELSE <<16 * hex_value(s[1]) + hex_value(s[2])>>
                             \o rest.bytes]

\* hashlib.pbkdf2_hmac('sha256', password, salt, 100000): a digest of 32
\* bytes that depends on the length and on every byte of the salt and of the
\* password. The digest is built from a number the bytes are folded into,
\* eight at a time.
mix(h, bytes, i) ==
    IF i > Len(bytes) THEN h ELSE (h * 263 + bytes[i] + 1) % 65521
RECURSIVE absorb(_, _, _)
absorb(h, bytes, i) ==
    IF h < 0 \/ i > Len(bytes) THEN h
    ELSE absorb(mix(mix(mix(mix(mix(mix(mix(mix(h, bytes, i), bytes, i + 1),
                                         bytes, i + 2), bytes, i + 3),
                                 bytes, i + 4), bytes, i + 5),
                         bytes, i + 6), bytes, i + 7),
                bytes, i + 8)
pbkdf2_hmac(password, salt) ==
    LET h == absorb(absorb(Len(salt) + 1, salt, 1), password, 1)
    IN  [i \in 1..digest_length |->
            CASE i = 1 -> h \div 256
              [] i = 2 -> h % 256
              [] OTHER -> (h + 7 * i) % 256]

\* x ^ y and x | y on bytes
RECURSIVE xor(_, _)
xor(x, y) ==
    IF x = 0 /\ y = 0 THEN 0
    ELSE (((x % 2) + (y % 2)) % 2) + 2 * xor(x \div 2, y \div 2)
RECURSIVE bit_or(_, _)
bit_or(x, y) ==
    IF x = 0 /\ y = 0 THEN 0
    ELSE (IF x % 2 = 1 \/ y % 2 = 1 THEN 1 ELSE 0)
         + 2 * bit_or(x \div 2, y \div 2)

\* (mutant) a loop that leaves at the first pair of bytes that differ
RECURSIVE compare_loop_early_exit(_, _, _, _)
compare_loop_early_exit(a, b, result, steps) ==
    IF result # 0 \/ steps < 0 \/ a = <<>> \/ b = <<>>
    THEN [result |-> result, steps |-> steps]
    ELSE compare_loop_early_exit(Tail(a), Tail(b),
                                 bit_or(result, xor(Head(a), Head(b))),
                                 steps + 1)

\* the loop 'for x, y in zip(a, b): result |= x ^ y'; steps counts its passes
RECURSIVE compare_loop(_, _, _, _)
compare_loop(a, b, result, steps) ==
    IF result + steps < 0 \/ a = <<>> \/ b = <<>>
    THEN [result |-> result, steps |-> steps]
    ELSE compare_loop(Tail(a), Tail(b), bit_or(result, xor(Head(a), Head(b))),
                      steps + 1)

\* (mutant) the comparison without the length check: zip stops at the shorter
constant_time_compare_unchecked(a, b) ==
    LET r == compare_loop(a, b, 0, 0)
    IN  [equal |-> r.result = 0, steps |-> r.steps]

\* SecureHasher._constant_time_compare: [equal, steps]
constant_time_compare(a, b) ==
    IF Len(a) # Len(b) THEN [equal |-> FALSE, steps |-> 0]
    ELSE LET r == compare_loop(a, b, 0, 0)
         IN  [equal |-> r.result = 0, steps |-> r.steps]

\* SecureHasher.hash_password; salt: what secrets.token_bytes(32) drew.
\* [raised, hash]
SecureHasher_hash_password(password, salt) ==
    IF ~password.isstr \/ Len(password.val) = 0
    THEN [raised |-> TRUE, hash |-> <<>>]
    ELSE [raised |-> FALSE,
          hash |-> hex(salt) \o <<":">>
                   \o hex(pbkdf2_hmac(utf8(password.val), salt))]

\* stored_hash.split(':', 1)
first_colon(s) == CHOOSE i \in 1..Len(s) : s[i] = ":" /\ \A j \in 1..(i - 1) : s[j] # ":"
salt_part(s) == SubSeq(s, 1, first_colon(s) - 1)
hash_part(s) == SubSeq(s, first_colon(s) + 1, Len(s))

\* SecureHasher.verify_password: [ok, caught, steps]; caught: an exception was
\* raised inside and caught by the except clause
SecureHasher_verify_password(password, stored_hash) ==
    LET ret(ok, caught, steps) == [ok |-> ok, caught |-> caught, steps |-> steps]
    IN  IF ~password.isstr \/ ~stored_hash.isstr THEN ret(FALSE, FALSE, 0)
        ELSE IF \A i \in 1..Len(stored_hash.val) : stored_hash.val[i] # ":"
        THEN ret(FALSE, FALSE, 0)
        ELSE LET salt == fromhex(salt_part(stored_hash.val))
                 stored_pwd_hash == fromhex(hash_part(stored_hash.val))
             IN  IF salt.raised \/ stored_pwd_hash.raised
                 THEN ret(FALSE, TRUE, 0)
                 ELSE LET pwd_hash == pbkdf2_hmac(utf8(password.val), salt.bytes)
                          r == constant_time_compare(pwd_hash,
                                                     stored_pwd_hash.bytes)
                      IN  ret(r.equal, FALSE, r.steps)

\* ---------------------------------------------------------- password policy

\* PasswordRequirements: the defaults of the dataclass
min_length == 8
max_length == 128
default_max_size == 1000
forbidden_patterns ==
    << <<"p", "a", "s", "s", "w", "o", "r", "d">>,
       <<"1", "2", "3", "4", "5", "6">>,
       <<"a", "d", "m", "i", "n">>,
       <<"q", "w", "e", "r", "t", "y">>,
       <<"l", "e", "t", "m", "e", "i", "n">>,
       <<"w", "e", "l", "c", "o", "m", "e">>,
       <<"p", "a", "s", "s", "w", "o", "r", "d", "1", "2", "3">>,
       <<"1", "2", "3", "4", "5", "6", "7", "8">>,
       <<"a", "b", "c", "1", "2", "3">> >>
PasswordRequirements ==
    [min_length |-> min_length, max_length |-> max_length,
     require_uppercase |-> TRUE, require_lowercase |-> TRUE,
     require_numbers |-> TRUE, require_special_chars |-> TRUE,
     forbidden_patterns |-> forbidden_patterns]

\* the list AuthManager.validate_password carries
weak_passwords == SubSeq(forbidden_patterns, 1, Len(forbidden_patterns) - 1)

special_chars ==
    {"!", "@", "#", "$", "%", "^", "&", "*", "(", ")", "_", "+", "-", "=",
     "[", "]", "{", "}", "|", ";", ":", ",", ".", "<", ">", "?"}

\* an entry of an errors list; n is the number an f-string puts in the text
ErrorText(msg, n) == [msg |-> msg, n |-> n]
ErrNotStr == ErrorText("Password must be a string", 0)
ErrMinLength(n) ==
    ErrorText("Password must be at least {} characters long", n)
ErrMaxLength(n) == ErrorText("Password cannot exceed {} characters", n)
ErrLowercase ==
    ErrorText("Password must contain at least one lowercase letter", 0)
ErrUppercase ==
    ErrorText("Password must contain at least one uppercase letter", 0)
ErrNumber == ErrorText("Password must contain at least one number", 0)
ErrSpecial ==
    ErrorText("Password must contain at least one special character", 0)
ErrCommon ==
    ErrorText("Password is too common. Please choose a more secure password.", 0)
ErrRepeated == ErrorText("Avoid using repeated patterns in your password", 0)

\* 'if test: errors.append(error)'
append_if(test, error) == IF test THEN <<error>> ELSE <<>>

\* 'x in list'
in_list(x, list) == \E i \in DOMAIN list : list[i] = x

\* (mutant) a run of five or more
has_repeated_patterns_of_five(password) ==
    \E i \in 1..(Len(password) - 4) :
        /\ password[i] # LineFeed
        /\ \A j \in (i + 1)..(i + 4) : password[j] = password[i]

\* PasswordValidator._has_repeated_patterns: re.search(r'(.)\1{2,}', password);
\* the dot of a pattern compiled without re.DOTALL matches no line feed
has_repeated_patterns(password) ==
    \E i \in 1..(Len(password) - 2) :
        /\ password[i] # LineFeed
        /\ password[i + 1] = password[i]
        /\ password[i + 2] = password[i]

\* the errors list of PasswordValidator.validate_password_strength for a str
strength_errors(requirements, password) ==
    append_if(Len(password) < requirements.min_length,
              ErrMinLength(requirements.min_length))
    \o append_if(Len(password) > requirements.max_length,
                 ErrMaxLength(requirements.max_length))
    \o append_if(/\ requirements.require_lowercase
                 /\ ~\E i \in DOMAIN password : islower(password[i]),
                 ErrLowercase)
    \o append_if(/\ requirements.require_uppercase
                 /\ ~\E i \in DOMAIN password : isupper(password[i]),
                 ErrUppercase)
    \o append_if(/\ requirements.require_numbers
                 /\ ~\E i \in DOMAIN password : isdigit(password[i]),
                 ErrNumber)
    \o append_if(/\ requirements.require_special_chars
                 /\ ~\E i \in DOMAIN password : password[i] \in special_chars,
                 ErrSpecial)
    \o append_if(in_list(lower(password), requirements.forbidden_patterns),
                 ErrCommon)
    \o append_if(has_repeated_patterns(password), ErrRepeated)

\* PasswordValidator.validate_password_strength: [ok, errors]
validate_password_strength(requirements, password) ==
    IF ~password.isstr THEN [ok |-> FALSE, errors |-> <<ErrNotStr>>]
    ELSE LET errors == strength_errors(requirements, password.val)
         IN  [ok |-> Len(errors) = 0, errors |-> errors]

\* AuthManager.validate_password: [ok, errors]
validate_password(password) ==
    IF ~password.isstr THEN [ok |-> FALSE, errors |-> <<ErrNotStr>>]
    ELSE LET p == password.val
             errors ==
                 append_if(Len(p) < 8, ErrMinLength(8))
                 \o append_if(Len(p) > 128, ErrMaxLength(128))
                 \o append_if(~\E i \in DOMAIN p : islower(p[i]), ErrLowercase)
                 \o append_if(~\E i \in DOMAIN p : isupper(p[i]), ErrUppercase)
                 \o append_if(~\E i \in DOMAIN p : isdigit(p[i]), ErrNumber)
                 \o append_if(~\E i \in DOMAIN p : p[i] \in special_chars,
                              ErrSpecial)
                 \o append_if(in_list(lower(p), weak_passwords), ErrCommon)
         IN  [ok |-> Len(errors) = 0, errors |-> errors]

\* ------------------------------------------------------------- register_user

\* [a-zA-Z] and [a-zA-Z0-9] of the e-mail pattern
ascii_letter(c) ==
    (ord(c) >= 65 /\ ord(c) <= 90) \/ (ord(c) >= 97 /\ ord(c) <= 122)
ascii_alnum(c) == ascii_letter(c) \/ isdigit(c)

\* re.match(r'^[a-zA-Z0-9._%+-]+@[a-zA-Z0-9.-]+\.[a-zA-Z]{2,}$', email): at is
\* the place of the '@' and dot the place of the last '.'
email_pattern(email) ==
    \E at \in DOMAIN email, dot \in DOMAIN email :
        /\ email[at] = "@" /\ email[dot] = "."
        /\ at > 1 /\ dot > at + 1 /\ Len(email) >= dot + 2
        /\ \A i \in 1..(at - 1) :
               ascii_alnum(email[i]) \/ email[i] \in {".", "_", "%", "+", "-"}
        /\ \A i \in (at + 1)..(dot - 1) :
               ascii_alnum(email[i]) \/ email[i] \in {".", "-"}
        /\ \A i \in (dot + 1)..Len(email) : ascii_letter(email[i])

\* '; '.join(password_errors)
RECURSIVE join(_)
join(errors) ==
    IF Len(errors) <= 1 THEN errors
    ELSE <<Head(errors), ErrorText("; ", 0)>> \o join(Tail(errors))

Refused(error) == [success |-> FALSE, text |-> error, row |-> NoRow]
RefusedText(msg) == Refused(<<ErrorText(msg, 0)>>)

\* register_user. existing_user is what get_user_by_email does ("none", "row",
\* or "raise"), insert what create_user_unsafe does ("ok" or "raise"). The
\* result: success, its 'error' or 'message', and the users row inserted.
register_user(username, email, password, existing_user, insert, long_passwords) ==
    IF ~username.isstr \/ ~email.isstr \/ ~password.isstr
    THEN RefusedText("All fields must be strings")
    ELSE
    LET name == strip(username.val)
        mail == lower(strip(email.val))
        valid == validate_password(password)
        hashed == hash_password(password, long_passwords)
    IN  IF name = <<>> \/ mail = <<>> \/ password.val = <<>>
        THEN RefusedText("Username, email, and password are required")
        ELSE IF Len(name) < 3 \/ Len(name) > 30
        THEN RefusedText("Username must be between 3 and 30 characters")
        ELSE IF \E i \in DOMAIN name :
                    ~(isalnum(name[i]) \/ name[i] \in {"_", "-"})
        THEN RefusedText("Username can only contain letters, numbers, underscores, and hyphens")
        ELSE IF ~email_pattern(mail)
        THEN RefusedText("Please enter a valid email address")
        ELSE IF ~valid.ok THEN Refused(join(valid.errors))
        ELSE IF hashed.raised THEN RefusedText("Password processing failed")
        ELSE IF existing_user = "row"
        THEN RefusedText("An account with this information already exists")
        ELSE IF insert = "raise"
        THEN RefusedText("Registration failed. Please try again later.")
        ELSE [success |-> TRUE,
              text |-> <<ErrorText("User registered successfully", 0)>>,
              row |-> <<name, mail, hashed.hash>>]

\* -------------------------------------------------- DatabaseConnectionManager

\* What the world does during one use of a connection: whether a
\* configuration was given, whether psycopg2.connect and sqlite3.connect
\* succeed ("ok") or fail ("raise"), what setting conn.autocommit does (the
\* sqlite3 connections of Python before 3.12 have no such attribute), how the
\* body of the with statement ends ("ok", "raise" for an Exception, "base" for
\* a BaseException that is no Exception, such as KeyboardInterrupt), and what
\* commit, rollback and close do.
Worlds ==
    [config : BOOLEAN, primary : {"ok", "raise"}, fallback : {"ok", "raise"},
     autocommit : {"ok", "raise"}, body : {"ok", "raise", "base"},
     commit : {"ok", "raise"}, rollback : {"ok", "raise"},
     close : {"ok", "raise"}]

\* DatabaseConnectionManager.get_connection: the connection ("primary",
\* "fallback", "none" when DatabaseConnectionError is raised) and the calls made
get_connection(w) ==
    IF w.config /\ w.primary = "ok"
    THEN [conn |-> "primary", calls |-> <<"get_primary_connection">>]
    ELSE [conn |-> IF w.fallback = "ok" THEN "fallback" ELSE "none",
          calls |-> IF w.config
                    THEN <<"get_primary_connection", "get_fallback_connection">>
                    ELSE IF w.fallback = "ok"
                    THEN <<"get_fallback_connection">>
                    ELSE <<"get_fallback_connection", "get_fallback_connection">>]

\* the finally clause: conn.close() when a connection was obtained
close_connection(w, conn) == IF conn # "none" THEN <<"close">> ELSE <<>>

\* (mutant) an except clause that raises without rolling back
rollback_connection_skipped(w, conn) == <<>>

\* the except clause: conn.rollback() when a connection was obtained, then
\* raise DatabaseTransactionError
rollback_connection(w, conn) == IF conn # "none" THEN <<"rollback">> ELSE <<>>

\* One use of get_transaction_context: the calls made on the connection in
\* their order, what the with statement raises, and what became of the
\* transaction and of the connection.
Used(w, conn, calls, raised) ==
    LET called(c) == \E i \in DOMAIN calls : calls[i] = c
        committed == called("commit") /\ w.commit = "ok"
        rolled_back == called("rollback") /\ w.rollback = "ok"
    IN  [op |-> "get_transaction_context", world |-> w, conn |-> conn,
         calls |-> calls, raised |-> raised,
         committed |-> committed, rolled_back |-> rolled_back,
         closed |-> called("close") /\ w.close = "ok"]

\* DatabaseConnectionManager.get_transaction_context
get_transaction_context(w) ==
    LET got == get_connection(w)
        conn == got.conn
        failed(calls) ==
            Used(w, conn,
                 calls \o rollback_connection(w, conn) \o close_connection(w, conn),
                 "DatabaseTransactionError")
    IN  IF conn = "none" THEN failed(got.calls)
        ELSE IF w.autocommit = "raise" THEN failed(got.calls \o <<"autocommit">>)
        ELSE IF w.body = "raise"
        THEN failed(got.calls \o <<"autocommit", "body">>)
        ELSE IF w.body = "base"
        THEN Used(w, conn,
                  got.calls \o <<"autocommit", "body">> \o close_connection(w, conn),
                  "BaseException")
        ELSE IF w.commit = "raise"
        THEN failed(got.calls \o <<"autocommit", "body", "commit">>)
        ELSE Used(w, conn,
                  got.calls \o <<"autocommit", "body", "commit">>
                      \o close_connection(w, conn),
                  "none")

\* ------------------------------------------------------------------ calculator

\* Python values: an int, a str, None, and the dict batch_calculate builds
PyInt(n) == [type |-> "int", val |-> n]
PyStr(s) == [type |-> "str", val |-> s]
PyNone == [type |-> "NoneType"]
PyDict(expression, result, error) == [type |-> "dict", expression |-> expression, result |-> result, error |-> error]

\* re.compile(r'^[0-9+\-*/().\s]+$'), calculator.py:48
allowed_chars(c) == isdigit(c) \/ c \in {"+", "-", "*", "/", "(", ")", "."} \/ c \in Whitespace

\* The tokens of an expression: the numbers and the operator characters, in
\* their order; white space separates and is dropped.
Number(n) == [num |-> TRUE, n |-> n, op |-> ""]
Operator(c) == [num |-> FALSE, n |-> 0, op |-> c]
RECURSIVE tokenize(_, _, _)
tokenize(s, acc, number) ==
    LET flushed == IF number < 0 THEN acc ELSE Append(acc, Number(number))
    IN  IF s = <<>> THEN flushed
        ELSE IF isdigit(Head(s))
        THEN tokenize(Tail(s), acc, 10 * (IF number < 0 THEN 0 ELSE number) + ord(Head(s)) - 48)
        ELSE IF Head(s) \in Whitespace THEN tokenize(Tail(s), flushed, -1)
        ELSE tokenize(Tail(s), Append(flushed, Operator(Head(s))), -1)

\* eval(expression, {"__builtins__": {}}, {}) on the expressions of the model,
\* a number or two numbers around one of + - * /: the value, or the exception
\* raised. A division of the model is exact, so the float Python returns
\* equals the integer here.
eval(expression) ==
    LET t == tokenize(expression, <<>>, -1)
        value(v) == [raised |-> "none", value |-> v]
        SyntaxError == [raised |-> "SyntaxError", value |-> 0]
    IN  IF Len(t) = 1 /\ t[1].num THEN value(t[1].n)
        ELSE IF Len(t) = 3 /\ t[1].num /\ ~t[2].num /\ t[3].num
        THEN IF t[2].op = "+" THEN value(t[1].n + t[3].n)
             ELSE IF t[2].op = "-" THEN value(t[1].n - t[3].n)
             ELSE IF t[2].op = "*" THEN value(t[1].n * t[3].n)
             ELSE IF t[2].op = "/"
             THEN IF t[3].n = 0
                  THEN [raised |-> "ZeroDivisionError", value |-> 0]
                  ELSE value(t[1].n \div t[3].n)
             ELSE SyntaxError
        ELSE SyntaxError

\* Calculator.calculate_expression: the value returned, or the text of the
\* ValueError raised. The names line 53 looks for hold characters line 48 has
\* refused already.
calculate_expression(expression) ==
    LET raise(text) == [ok |-> FALSE, result |-> 0, error |-> text]
    IN  IF ~expression.isstr \/ Len(strip(expression.val)) = 0
        THEN raise("Expression must be a non-empty string")
        ELSE IF \E i \in DOMAIN expression.val : ~allowed_chars(expression.val[i])
        THEN raise("Expression contains invalid characters")
        ELSE LET e == eval(expression.val)
             IN  IF e.raised = "none"
                 THEN [ok |-> TRUE, result |-> e.value, error |-> ""]
                 ELSE IF e.raised = "SyntaxError"
                 THEN raise("Invalid mathematical expression: invalid syntax")
                 ELSE raise("Calculation error: division by zero")

\* the body of the loop of batch_calculate: the dict appended for expr
batch_entry(expr) ==
    IF ~expr.isstr
    THEN PyDict(expr, PyNone, PyStr("Expression must be a string"))
    ELSE LET r == calculate_expression(expr)
         IN  IF r.ok THEN PyDict(expr, PyInt(r.result), PyNone)
             ELSE PyDict(expr, PyNone, PyStr(r.error))

\* batch_calculate: the list returned, or ValueError("Batch calculation
\* error: Input must be a list of expressions") for an argument that is no list
batch_calculate(islist, expressions) ==
    [op |-> "batch_calculate", islist |-> islist, expressions |-> expressions, raised |-> ~islist,
     ret |-> IF islist THEN [i \in DOMAIN expressions |-> batch_entry(expressions[i])] ELSE <<>>]

\* ---------------------------------------------------------- CalculationHistory

\* l[start:], the slice of a list from an index that may be negative
slice_from(l, start) ==
    LET first == IF start < 0
                 THEN (IF Len(l) + start < 0 THEN 0 ELSE Len(l) + start)
                 ELSE (IF start > Len(l) THEN Len(l) ELSE start)
    IN  SubSeq(l, first + 1, Len(l))

\* l[:stop], for a stop that is not negative
slice_to(l, stop) == SubSeq(l, 1, IF stop > Len(l) THEN Len(l) ELSE stop)

\* (mutant) a history that keeps its oldest entries
add_calculation_keeping_oldest(size, history, result) ==
    LET appended == Append(history, result)
    IN  IF Len(appended) > size THEN slice_to(appended, size) ELSE appended

\* CalculationHistory.add_calculation: the list _history after the call
add_calculation(size, history, result) ==
    LET appended == Append(history, result)
    IN  IF Len(appended) > size THEN slice_from(appended, -size) ELSE appended

\* the argument limit of get_history: None, or an int
NoLimit == [none |-> TRUE, n |-> 0]
Limit(n) == [none |-> FALSE, n |-> n]

\* CalculationHistory.get_history: the list returned; the copy and the slices
\* are new lists
get_history(history, limit) ==
    IF limit.none THEN history
    ELSE IF limit.n > 0 THEN slice_from(history, -limit.n) ELSE <<>>

\* CalculationHistory.clear_history: the list _history after the call
clear_history(history) == <<>>

\* -------------------------------------------------------------- DatabaseManager

\* What the database does during one call: which connection get_connection
\* returns ("primary" for PostgreSQL, "fallback" for the SQLite file, "none"
\* when it raises), and the statement at which the primary raises
\* psycopg2.Error, if any. The SQLite connection raises at the first statement
\* it is given: it has no %s placeholders.
Databases ==
    [conn : {"primary", "fallback", "none"},
     fail_at : {"nowhere", "select", "debit", "credit", "commit"}]

\* UPDATE accounts SET balance = balance + delta WHERE id = account: the rows
\* with that id, none if there is none
update_balance(table, account, delta) ==
    [id \in DOMAIN table |-> IF id = account THEN table[id] + delta ELSE table[id]]

Transferred(from_account, to_account, amount, db, before, ok, error, after) ==
    [op |-> "transfer_funds", from_account |-> from_account, to_account |-> to_account, amount |-> amount,
     db |-> db, before |-> before, ok |-> ok, error |-> error, after |-> after]

\* DatabaseManager.transfer_funds: True, or the text of the exception raised,
\* and the table accounts after the call. What a transaction has written is
\* in the table once it is committed; a rollback, and a close without a
\* commit, leave the table as it was.
transfer_funds(table, from_account, to_account, amount, db) ==
    LET raise(text) == Transferred(from_account, to_account, amount, db, table, FALSE, text, table)
        database_error == raise("Transfer failed due to database error")
        debited == update_balance(table, from_account, -amount)
        credited == update_balance(debited, to_account, amount)
    IN  IF amount <= 0 THEN raise("Transfer amount must be positive")
        ELSE IF from_account = to_account
        THEN raise("Cannot transfer to the same account")
        ELSE IF db.conn = "none" THEN raise("Transfer failed")
        ELSE IF db.conn = "fallback" \/ db.fail_at = "select" THEN database_error
        ELSE IF from_account \notin DOMAIN table \/ table[from_account] < amount
        THEN raise("Insufficient funds")
        ELSE IF db.fail_at \in {"debit", "credit", "commit"} THEN database_error
        ELSE Transferred(from_account, to_account, amount, db, table, TRUE, "", credited)

\* --------------------------------------------------------- the failure table

\* dict helpers: d[k] = v, del d[k], d.get(k, default)
dict_set(d, k, v) == [x \in (DOMAIN d) \cup {k} |-> IF x = k THEN v ELSE d[x]]
dict_del(d, k) == [x \in (DOMAIN d) \ {k} |-> d[x]]
dict_get(d, k, default) == IF k \in DOMAIN d THEN d[k] ELSE default

\* (mutant) the comprehension keeping an attempt made exactly at the cutoff
recent_attempts_inclusive(attempts, cutoff_time) ==
    SelectSeq(attempts, LAMBDA attempt_time : attempt_time >= cutoff_time)

\* the list comprehension of _check_rate_limit: the attempts after the cutoff
recent_attempts(attempts, cutoff_time) ==
    SelectSeq(attempts, LAMBDA attempt_time : attempt_time > cutoff_time)

\* the clean-up loop of _check_rate_limit: every list filtered, empty lists deleted
purge_old_attempts(table, current_time) ==
    LET cutoff_time == current_time - window_seconds
        keep == {key \in DOMAIN table :
                    recent_attempts(table[key], cutoff_time) # <<>>}
    IN  [key \in keep |-> recent_attempts(table[key], cutoff_time)]

\* (mutant) the comparison allowing a sixth attempt
within_limits_off_by_one(username_attempts, ip_attempts) ==
    username_attempts <= max_attempts /\ ip_attempts <= max_attempts

\* the return expression of _check_rate_limit
within_limits(username_attempts, ip_attempts) ==
    username_attempts < max_attempts /\ ip_attempts < max_attempts

\* (mutant) a rate check that counts the username only
check_rate_limit_user_only(table, current_time, username, ip_address) ==
    LET cleaned == purge_old_attempts(table, current_time)
        username_attempts == Len(dict_get(cleaned, user_key(username), <<>>))
    IN  [table |-> cleaned, allowed |-> within_limits(username_attempts, 0)]

\* AuthManager._check_rate_limit: the table it leaves, and what it returns
check_rate_limit(table, current_time, username, ip_address) ==
    LET cleaned == purge_old_attempts(table, current_time)
        username_attempts == Len(dict_get(cleaned, user_key(username), <<>>))
        ip_attempts ==
            IF ip_address # <<>>
            THEN Len(dict_get(cleaned, ip_key(ip_address), <<>>))
            ELSE 0
    IN  [table |-> cleaned,
         allowed |-> within_limits(username_attempts, ip_attempts)]

\* failed_login_attempts[key].append(current_time), the key created when absent
append_attempt(table, key, current_time) ==
    dict_set(table, key, Append(dict_get(table, key, <<>>), current_time))

\* (mutant) a record that forgets the IP key
record_failed_attempt_user_only(table, current_time, username, ip_address) ==
    append_attempt(table, user_key(username), current_time)

\* AuthManager._record_failed_attempt
record_failed_attempt(table, current_time, username, ip_address) ==
    LET t1 == append_attempt(table, user_key(username), current_time)
    IN  IF ip_address # <<>>
        THEN append_attempt(t1, ip_key(ip_address), current_time)
        ELSE t1

\* (mutant) a reset that forgets the IP key
reset_rate_limit_user_only(table, username, ip_address) ==
    dict_del(table, user_key(username))

\* AuthManager._reset_rate_limit
reset_rate_limit(table, username, ip_address) ==
    LET t1 == dict_del(table, user_key(username))
    IN  IF ip_address # <<>> THEN dict_del(t1, ip_key(ip_address)) ELSE t1

\* ---------------------------------------------------------- authenticate_user

DbError == {<<>>}
NoUser == [id |-> 0, username |-> <<>>, email |-> <<>>]
user_dict(user) == [id |-> user[1], username |-> user[2], email |-> user[3]]

\* the number of timestamps a table holds
size(table) ==
    Cardinality(UNION {{<<key, i>> : i \in 1..Len(table[key])} : key \in DOMAIN table})

\* What a call returned (ok, user, msg) and what it did on the way: the number
\* of credential lookups and of verify_password calls, the hash handed to
\* verify_password, the exceptions caught inside, and the number of timestamps
\* the clean-up loop (purged) and the reset (cleared) took out of the table.
Returned(ok, user, msg, lookups, vhash, errors, purged, cleared) ==
    [op |-> "authenticate_user", ok |-> ok, user |-> user, msg |-> msg,
     lookups |-> lookups,
     verifies |-> IF vhash = "none" THEN 0 ELSE 1,
     vhash |-> vhash, errors |-> errors,
     purged |-> purged, cleared |-> cleared]

\* the hash authenticate_user hands to verify_password
hash_to_verify(user) == IF user # NoRow THEN user[4] ELSE DummyHash

\* (mutant) a failure branch that tells an unknown user apart
invalid_message_enumerating(user) ==
    IF user = NoRow THEN "User not found" ELSE MsgInvalid

\* the message of the failure branch, lines 271-276
invalid_message(user) == MsgInvalid

\* (mutant) no verification when the lookup found no row
verify_and_finish_no_dummy(table, current_time, username, password, ip_address, user, purged) ==
    LET v == verify_password(hash_to_verify(user), password, short_passwords)
        errors == IF v.raised THEN {"verify"} ELSE {}
        reset == reset_rate_limit(table, username, ip_address)
    IN  IF user # NoRow /\ v.ok
        THEN [table |-> reset,
              ret |-> Returned(TRUE, user_dict(user), MsgSuccess, 1, "stored",
                               errors, purged, size(table) - size(reset))]
        ELSE [table |-> record_failed_attempt(table, current_time, username,
                                              ip_address),
              ret |-> Returned(FALSE, NoUser, invalid_message(user), 1,
                               IF user # NoRow THEN "stored" ELSE "none",
                               IF user # NoRow THEN errors ELSE {}, purged, 0)]

\* AuthManager.authenticate_user, lines 253-276: the lookup has returned `user`
verify_and_finish(table, current_time, username, password, ip_address, user, purged) ==
    LET v == verify_password(hash_to_verify(user), password, short_passwords)
        password_valid == user # NoRow /\ v.ok
        vhash == IF user # NoRow THEN "stored" ELSE "dummy"
        errors == IF v.raised THEN {"verify"} ELSE {}
        reset == reset_rate_limit(table, username, ip_address)
    IN  IF user # NoRow /\ password_valid
        THEN [table |-> reset,
              ret |-> Returned(TRUE, user_dict(user), MsgSuccess, 1, vhash,
                               errors, purged, size(table) - size(reset))]
        ELSE [table |-> record_failed_attempt(table, current_time, username,
                                              ip_address),
              ret |-> Returned(FALSE, NoUser, invalid_message(user), 1, vhash,
                               errors, purged, 0)]

\* (mutant) a refusal by the rate check that is recorded as a failure
check_and_lookup_recording(table, current_time, username, password, ip_address, users) ==
    LET chk == check_rate_limit(table, current_time, username, ip_address)
        purged == size(table) - size(chk.table)
    IN  IF ~chk.allowed
        THEN [table |-> record_failed_attempt(chk.table, current_time,
                                              username, ip_address),
              ret |-> Returned(FALSE, NoUser, MsgRateLimited, 0, "none", {},
                               purged, 0)]
        ELSE IF users = DbError
        THEN [table |-> chk.table,
              ret |-> Returned(FALSE, NoUser, MsgUnavailable, 1, "none",
                               {"lookup"}, purged, 0)]
        ELSE verify_and_finish(chk.table, current_time, username, password,
                               ip_address, get_user_by_email(users, username),
                               purged)

\* (mutant) the lookup and the verification made before the rate check is read
check_and_lookup_late(table, current_time, username, password, ip_address, users) ==
    LET chk == check_rate_limit(table, current_time, username, ip_address)
        purged == size(table) - size(chk.table)
    IN  IF users = DbError
        THEN [table |-> chk.table,
              ret |-> Returned(FALSE, NoUser, MsgUnavailable, 1, "none",
                               {"lookup"}, purged, 0)]
        ELSE IF ~chk.allowed
        THEN [table |-> chk.table,
              ret |-> Returned(FALSE, NoUser, MsgRateLimited, 1, "stored", {},
                               purged, 0)]
        ELSE verify_and_finish(chk.table, current_time, username, password,
                               ip_address, get_user_by_email(users, username),
                               purged)

\* AuthManager.authenticate_user, lines 241-251: the rate check, then the lookup
check_and_lookup(table, current_time, username, password, ip_address, users) ==
    LET chk == check_rate_limit(table, current_time, username, ip_address)
        purged == size(table) - size(chk.table)
    IN  IF ~chk.allowed
        THEN [table |-> chk.table,
              ret |-> Returned(FALSE, NoUser, MsgRateLimited, 0, "none", {},
                               purged, 0)]
        ELSE IF users = DbError
        THEN [table |-> chk.table,
              ret |-> Returned(FALSE, NoUser, MsgUnavailable, 1, "none",
                               {"lookup"}, purged, 0)]
        ELSE verify_and_finish(chk.table, current_time, username, password,
                               ip_address, get_user_by_email(users, username),
                               purged)

\* username.strip().lower(), line 237
normalise(username) == lower(strip(username))

\* AuthManager.authenticate_user; users: the rows of the users table, or
\* DbError when get_user_by_email raises
authenticate_user(table, current_time, username_in, password, ip_address, users) ==
    IF ~username_in.isstr \/ ~password.isstr
    THEN [table |-> table,
          ret |-> Returned(FALSE, NoUser, MsgFormat, 0, "none", {}, 0, 0)]
    ELSE IF normalise(username_in.val) = <<>> \/ password.val = <<>>
    THEN [table |-> table,
          ret |-> Returned(FALSE, NoUser, MsgRequired, 0, "none", {}, 0, 0)]
    ELSE check_and_lookup(table, current_time, normalise(username_in.val),
                          password, ip_address, users)

\* ----------------------------------------------------------------- sessions

\* a value that is an int, and one that is not (isinstance(x, int))
IntVal(v) == [isint |-> TRUE, val |-> v]
NotInt == [isint |-> FALSE, val |-> 0]

\* the dict create_session stores
new_session(user_id, current_time) ==
    [user_id |-> user_id, created_at |-> current_time,
     last_accessed |-> current_time, ip_address |-> "None",
     user_agent |-> "None"]

\* (mutant) a session that expires one second early
session_expired_early(session, current_time) ==
    current_time - session.created_at >= session_timeout

\* current_time - session['created_at'] > self.session_timeout
session_expired(session, current_time) ==
    current_time - session.created_at > session_timeout

\* AuthManager._cleanup_expired_sessions
cleanup_expired_sessions(sessions, current_time) ==
    LET expired_sessions ==
            {session_id \in DOMAIN sessions :
                session_expired(sessions[session_id], current_time)}
    IN  [session_id \in (DOMAIN sessions) \ expired_sessions |-> sessions[session_id]]

\* AuthManager.create_session; session_id: what secrets.token_urlsafe(32) drew
create_session(sessions, current_time, user_id, session_id) ==
    IF ~user_id.isint \/ user_id.val <= 0
    THEN [sessions |-> sessions,
          ret |-> [op |-> "create_session", raised |-> TRUE, id |-> <<>>]]
    ELSE [sessions |->
              cleanup_expired_sessions(
                  dict_set(sessions, session_id,
                           new_session(user_id.val, current_time)),
                  current_time),
          ret |-> [op |-> "create_session", raised |-> FALSE, id |-> session_id]]

\* AuthManager.validate_session
validate_session(sessions, current_time, session_id) ==
    LET ret(valid, msg) ==
            [op |-> "validate_session", id |-> session_id.val, valid |-> valid,
             msg |-> msg]
    IN  IF ~session_id.isstr \/ strip(session_id.val) = <<>>
        THEN [sessions |-> sessions, ret |-> ret(FALSE, "Invalid session ID format")]
        ELSE IF session_id.val \notin DOMAIN sessions
        THEN [sessions |-> sessions, ret |-> ret(FALSE, "Session not found")]
        ELSE IF session_expired(sessions[session_id.val], current_time)
        THEN [sessions |-> dict_del(sessions, session_id.val),
              ret |-> ret(FALSE, "Session has expired")]
        ELSE [sessions |->
                  [sessions EXCEPT ![session_id.val].last_accessed = current_time],
              ret |-> ret(TRUE, "None")]

\* (mutant) a logout that answers and leaves the session in the table
logout_user_keeping(sessions, session_id) ==
    [sessions |-> sessions,
     ret |-> [op |-> "logout_user", id |-> session_id,
              result |-> session_id \in DOMAIN sessions]]

\* logout_user
logout_user(sessions, session_id) ==
    IF session_id \in DOMAIN sessions
    THEN [sessions |-> dict_del(sessions, session_id),
          ret |-> [op |-> "logout_user", id |-> session_id, result |-> TRUE]]
    ELSE [sessions |-> sessions,
          ret |-> [op |-> "logout_user", id |-> session_id, result |-> FALSE]]

\* ------------------------------------------------------------------- tokens

\* os.getenv('JWT_SECRET_KEY', secrets.token_urlsafe(64)): the variable when
\* it is set, else the key drawn for this call
Unset == "<unset>"
secret_key(env, drawn) == IF env # Unset THEN env ELSE drawn

\* the HS256 signature of a payload under a key
hs256(key, payload) == [key |-> key, payload |-> payload]

\* jwt.encode(payload, secret_key, algorithm='HS256'). form: what kind of
\* value a token is: "jwt" (a string of three well-formed segments), "garbage"
\* (another non-blank string), "blank" (an empty or all-whitespace string),
\* "notstr" (no string)
jwt_encode(payload, key) ==
    [form |-> "jwt", payload |-> payload, sig |-> hs256(key, payload)]

\* AuthManager.create_jwt_token; drawn: the key secrets.token_urlsafe(64) drew,
\* jti: the token id secrets.token_urlsafe(16) drew
create_jwt_token(env, current_time, user_id, username, is_admin, drawn, jti) ==
    IF ~user_id.isint \/ ~username.isstr
    THEN [raised |-> TRUE, token |-> <<>>]
    ELSE [raised |-> FALSE,
          token |->
              jwt_encode([user_id |-> user_id.val, username |-> username.val,
                          exp |-> current_time + token_lifetime,
                          iat |-> current_time,
                          iss |-> "qodo-merge-app", aud |-> "qodo-merge-users",
                          jti |-> jti, is_admin |-> is_admin],
                         secret_key(env, drawn))]

\* jwt.decode with the options of verify_jwt_token: the exception it raises,
\* or "none". at_expiry: whether the library takes a token whose exp is this
\* very second as expired (PyJWT 2 does, PyJWT 1 does not).
jwt_decode(token, key, current_time, at_expiry) ==
    CASE token.form # "jwt" -> "DecodeError"
      [] token.sig # hs256(key, token.payload) -> "InvalidSignatureError"
      [] token.payload.iat > current_time -> "ImmatureSignatureError"
      [] token.payload.exp < current_time -> "ExpiredSignatureError"
      [] token.payload.exp = current_time /\ at_expiry -> "ExpiredSignatureError"
      [] token.payload.aud # "qodo-merge-users" -> "InvalidAudienceError"
      [] token.payload.iss # "qodo-merge-app" -> "InvalidIssuerError"
      [] OTHER -> "none"

\* the except clauses of verify_jwt_token, in their order: every PyJWT
\* exception but ExpiredSignatureError is caught as jwt.InvalidTokenError
verify_error_message(exception) ==
    CASE exception = "ExpiredSignatureError" -> "Token has expired"
      [] OTHER -> "Invalid token"

\* AuthManager.verify_jwt_token; drawn: the key secrets.token_urlsafe(64) drew
verify_jwt_token(env, current_time, token, drawn, at_expiry) ==
    LET key == secret_key(env, drawn)
        exception == jwt_decode(token, key, current_time, at_expiry)
        ret(valid, payload, error) ==
            [op |-> "verify_jwt_token", token |-> token, at |-> current_time,
             key |-> key, valid |-> valid, payload |-> payload, error |-> error]
    IN  IF token.form \in {"notstr", "blank"}
        THEN ret(FALSE, <<>>, "Invalid token format")
        ELSE IF exception = "none"
        THEN ret(TRUE, token.payload, "None")
        ELSE ret(FALSE, <<>>, verify_error_message(exception))

\* ------------------------------------------------------------------- inputs

UsernameInputs == { Str(<<" ", "A", " ">>), Str(<<" ">>), NotStrName }
PasswordInputs == { Str(<<"p", "w", "1">>), Str(<<"b", "a", "d">>), Str(<<>>), NotStrPw }
IpInputs == { <<>>, <<"1">> }

\* what the users table may hold when a call looks a user up
StoresFor(email) ==
    { {}, {UserRow(1, email, BcryptHash(<<"p", "w", "1">>))},
      {UserRow(1, email, PlainText)}, {UserRow(1, email, BytesHash)},
      DbError }
UserStores == StoresFor(<<"a">>)

NoCall == [Returned(FALSE, NoUser, "", 0, "none", {}, 0, 0) EXCEPT !.op = "none"]

\* the locals of a thread that is in no call
Threads == 1..NumThreads
Idle == [pc |-> "idle", username |-> <<>>, password |-> Str(<<>>),
         ip_address |-> <<>>, current_time |-> 0, todo |-> <<>>,
         filtered |-> <<>>, username_attempts |-> 0, user |-> NoRow]

\* ------------------------------------------------------------------ actions

Init ==
    /\ now = 0
    /\ failed_login_attempts = <<>>
    /\ active_sessions = <<>>
    /\ jwt_env = Unset
    /\ tokens = {}
    /\ last = NoCall
    /\ th = [t \in Threads |-> Idle]
    /\ max_size = default_max_size /\ _history = <<>> /\ added = <<>>
    /\ accounts = <<>>

\* time passes between two calls
Advance(seconds, ticks) ==
    /\ now + seconds <= ticks * seconds
    /\ now' = now + seconds
    /\ UNCHANGED <<failed_login_attempts, active_sessions, jwt_env, calculator_and_database, tokens, last, th>>

Tick == Advance(TickSeconds, MaxTicks)

\* one call of auth_manager.authenticate_user with arguments of these sets
Call(usernames, passwords, ips, stores) ==
    \E username \in usernames, password \in passwords,
       ip_address \in ips, users \in stores :
        LET r == authenticate_user(failed_login_attempts, now, username,
                                   password, ip_address, users)
        IN  /\ failed_login_attempts' = r.table
            /\ last' = r.ret
            /\ UNCHANGED <<now, active_sessions, jwt_env, calculator_and_database, tokens, th>>

AuthenticateUser == Call(UsernameInputs, PasswordInputs, IpInputs, UserStores)

Next == Tick \/ AuthenticateUser

Spec == Init /\ [][Next]_vars

\* The usernames, passwords and addresses of SpecAxes: three identities (a
\* registered, b and c not) and two addresses, at one instant.
AxesUsernames == { Str(<<"a">>), Str(<<"b">>), Str(<<"c">>) }
AxesPasswords == { Str(<<"p", "w", "1">>), Str(<<"b", "a", "d">>) }
AxesIps == { <<>>, <<"1">>, <<"2">> }
AxesStores == { {UserRow(1, <<"a">>, BcryptHash(<<"p", "w", "1">>))} }

AuthenticateAxes == Call(AxesUsernames, AxesPasswords, AxesIps, AxesStores)

NextAxes == AuthenticateAxes

SpecAxes == Init /\ [][NextAxes]_vars

\* ------------------------------------------------------ sessions in time

SessionIds == { <<"s1">>, <<"s2">> }
SessionUserIds == { IntVal(1), IntVal(0), NotInt }
SessionIdInputs == {Str(id) : id \in SessionIds} \cup { Str(<<" ">>), NotStrName }

LongTick == Advance(LongTickSeconds, MaxLongTicks)

\* one call of auth_manager.create_session
CreateSession ==
    \E user_id \in SessionUserIds, session_id \in SessionIds :
        LET r == create_session(active_sessions, now, user_id, session_id)
        IN  /\ active_sessions' = r.sessions
            /\ last' = r.ret
            /\ UNCHANGED <<now, failed_login_attempts, jwt_env, calculator_and_database, tokens, th>>

\* one call of auth_manager.validate_session
ValidateSession ==
    \E session_id \in SessionIdInputs :
        LET r == validate_session(active_sessions, now, session_id)
        IN  /\ active_sessions' = r.sessions
            /\ last' = r.ret
            /\ UNCHANGED <<now, failed_login_attempts, jwt_env, calculator_and_database, tokens, th>>

\* one call of logout_user
LogoutUser ==
    \E session_id \in SessionIds :
        LET r == logout_user(active_sessions, session_id)
        IN  /\ active_sessions' = r.sessions
            /\ last' = r.ret
            /\ UNCHANGED <<now, failed_login_attempts, jwt_env, calculator_and_database, tokens, th>>

\* authenticate_user for the registered user a, with and without her password
LoginStores == { {UserRow(1, <<"a">>, BcryptHash(<<"p", "w", "1">>))} }
Login == Call({Str(<<"a">>)}, {Str(<<"p", "w", "1">>), Str(<<"b", "a", "d">>)}, {<<>>}, LoginStores)

NextSession == LongTick \/ CreateSession \/ ValidateSession \/ LogoutUser \/ Login

SpecSession == Init /\ [][NextSession]_vars

\* -------------------------------------------------------- tokens in time

TokenUserIds == { IntVal(1), NotInt }
TokenUsernames == { Str(<<"a">>) }
DrawnKeys == { "r1", "r2" }
EnvKeys == { Unset, "k1" }

InitToken ==
    /\ now = 0
    /\ failed_login_attempts = <<>>
    /\ active_sessions = <<>>
    /\ jwt_env \in EnvKeys
    /\ tokens = {}
    /\ last = NoCall
    /\ th = [t \in Threads |-> Idle]
    /\ max_size = default_max_size /\ _history = <<>> /\ added = <<>>
    /\ accounts = <<>>

\* one call of auth_manager.create_jwt_token; the caller keeps the token
CreateJwtToken ==
    \E user_id \in TokenUserIds, username \in TokenUsernames,
       is_admin \in BOOLEAN, drawn \in DrawnKeys :
        LET r == create_jwt_token(jwt_env, now, user_id, username, is_admin,
                                  drawn, "jti")
        IN  /\ ~r.raised => Cardinality(tokens \cup {r.token}) <= MaxTokens
            /\ tokens' = IF r.raised THEN tokens ELSE tokens \cup {r.token}
            /\ last' = [op |-> "create_jwt_token", raised |-> r.raised,
                          token |-> r.token]
            /\ UNCHANGED <<now, failed_login_attempts, active_sessions, jwt_env, calculator_and_database, th>>

\* What a client can present for a token it was issued: the token itself,
\* the same claims under another issuer or another audience signed with a key
\* (a token of another service), the token signed with another key, and
\* values that are no JWT.
with_issuer(token, iss, key) ==
    jwt_encode([token.payload EXCEPT !.iss = iss], key)
with_audience(token, aud, key) ==
    jwt_encode([token.payload EXCEPT !.aud = aud], key)
not_a_jwt(token, form) == [token EXCEPT !.form = form]
ForeignKeys == { "k1", "k2" }
presented(issued) ==
    issued
    \cup { with_issuer(token, "other-app", key) :
              token \in issued, key \in ForeignKeys }
    \cup { with_audience(token, "other-users", key) :
              token \in issued, key \in ForeignKeys }
    \cup { jwt_encode(token.payload, "k2") : token \in issued }
    \cup { not_a_jwt(token, form) :
              token \in issued, form \in {"garbage", "blank", "notstr"} }

\* one call of auth_manager.verify_jwt_token on a presented token
VerifyJwtToken ==
    \E token \in presented(tokens), drawn \in DrawnKeys, at_expiry \in BOOLEAN :
        /\ last' = verify_jwt_token(jwt_env, now, token, drawn, at_expiry)
        /\ UNCHANGED <<now, failed_login_attempts, active_sessions, jwt_env, calculator_and_database,
                       tokens, th>>

NextToken == LongTick \/ CreateJwtToken \/ VerifyJwtToken

SpecToken == InitToken /\ [][NextToken]_vars

\* ------------------------------------------------- hashing and verifying
\*
\* SpecHash: passwords are hashed by the two hashers of the code, and verified
\* against the hash just made or against another value of the password column.

\* Secrets the password rules accept: two short ones, and three that agree
\* in their first 72 characters (18 times "Aa1!")
Pattern == <<"A", "a", "1", "!">>
Secret72 == [i \in 1..bcrypt_max |-> Pattern[((i - 1) % 4) + 1]]
HashSecrets ==
    { <<"A", "a", "1", "!", "a", "b", "c", "d">>,
      <<"A", "a", "1", "!", "a", "b", "c", "e">>,
      Secret72, Secret72 \o <<"y">>, Secret72 \o <<"z">>,
      <<EAcute>> \o SubSeq(Secret72, 1, bcrypt_max - 1) \o <<"y">>,
      <<EAcute>> \o SubSeq(Secret72, 1, bcrypt_max - 1) \o <<"z">> }
HashInputs == {Str(secret) : secret \in HashSecrets} \cup {Str(<<>>), NotStrPw}

\* what secrets.token_bytes(32) can draw
Salts == { [i \in 1..salt_length |-> 17], [i \in 1..salt_length |-> 171] }

\* one call of SecureHasher.hash_password
SecureHashPassword ==
    \E password \in HashInputs, salt \in Salts :
        LET r == SecureHasher_hash_password(password, salt)
        IN  /\ last' = [op |-> "hash_password", hasher |-> "SecureHasher",
                        secret |-> password, raised |-> r.raised,
                        hash |-> Str(r.hash), long_passwords |-> short_passwords]
            /\ UNCHANGED <<now, failed_login_attempts, active_sessions,
                           jwt_env, calculator_and_database, tokens, th>>

\* one call of auth_manager.hash_password, with a bcrypt of either behaviour
HashPassword ==
    \E password \in HashInputs, long_passwords \in LongPasswords :
        LET r == hash_password(password, long_passwords)
        IN  /\ last' = [op |-> "hash_password", hasher |-> "AuthManager",
                        secret |-> password, raised |-> r.raised,
                        hash |-> r.hash, long_passwords |-> long_passwords]
            /\ UNCHANGED <<now, failed_login_attempts, active_sessions,
                           jwt_env, calculator_and_database, tokens, th>>

\* what a verification returned: the hasher, the secret the stored hash was
\* made from (NotStrPw when it was made from none), the arguments, the result
Verified(hasher, secret, password, stored_hash, ok, caught, steps) ==
    [op |-> "verify_password", hasher |-> hasher, secret |-> secret,
     password |-> password, stored_hash |-> stored_hash, ok |-> ok,
     caught |-> caught, steps |-> steps]

\* one call of verify_password of the hasher that made the last hash, on it
VerifyPassword ==
    /\ last.op = "hash_password" /\ ~last.raised
    /\ \E password \in HashInputs :
           IF last.hasher = "SecureHasher"
           THEN LET r == SecureHasher_verify_password(password, last.hash)
                IN  last' = Verified("SecureHasher", last.secret, password,
                                     last.hash, r.ok, r.caught, r.steps)
           ELSE LET r == verify_password(last.hash, password,
                                         last.long_passwords)
                IN  last' = Verified("AuthManager", last.secret, password,
                                     last.hash, r.ok, r.raised, 0)
    /\ UNCHANGED <<now, failed_login_attempts, active_sessions, jwt_env, calculator_and_database,
                   tokens, th>>

\* Values of a password column that no hash_password call returned, made
\* from one that a call did return
upper_hex(s) ==
    [i \in 1..Len(s) |->
        IF ord(s[i]) >= 97 /\ ord(s[i]) <= 102 THEN chr(ord(s[i]) - 32) ELSE s[i]]
Forged(password, salt) ==
    LET stored == SecureHasher_hash_password(password, salt).hash
        salt_hex == salt_part(stored)
        hash_hex == hash_part(stored)
    IN  { Str(salt_hex \o hash_hex),
          Str(<<"z", "z">> \o stored),
          Str(stored \o <<"z", "z">>),
          Str(<<>>),
          Str(<<":">>),
          Str(salt_hex \o <<":">>),
          Str(SubSeq(stored, 1, Len(stored) - 2)),
          Str(SubSeq(stored, 1, Len(stored) - 1)),
          Str(salt_hex \o <<":", ":">> \o hash_hex),
          Str(upper_hex(stored)),
          Str(salt_hex \o <<":", " ">> \o hash_hex),
          Str(<<":">> \o hex(pbkdf2_hmac(utf8(password.val), <<>>))),
          NotStrName }

\* one call of SecureHasher.verify_password on such a value
ForgedFrom == Str(<<"A", "a", "1", "!", "a", "b", "c", "d">>)
ForgedStored == Forged(ForgedFrom, [i \in 1..salt_length |-> 171])
SecureVerifyStored ==
    \E password \in {ForgedFrom, Str(<<"A", "a", "1", "!", "a", "b", "c", "e">>),
                      Str(<<>>), NotStrPw} :
        \E stored_hash \in ForgedStored :
            LET r == SecureHasher_verify_password(password, stored_hash)
            IN  /\ last' = Verified("SecureHasher", NotStrPw, password,
                                    stored_hash, r.ok, r.caught, r.steps)
                /\ UNCHANGED <<now, failed_login_attempts, active_sessions,
                               jwt_env, calculator_and_database, tokens, th>>

\* one call of auth_manager.verify_password on a password column that holds
\* no hash of hash_password
VerifyStored ==
    \E stored_hash \in {PlainText, BytesHash, DummyHash},
       password \in HashInputs, long_passwords \in LongPasswords :
        LET r == verify_password(stored_hash, password, long_passwords)
        IN  /\ last' = Verified("AuthManager", NotStrPw, password,
                                stored_hash, r.ok, r.raised, 0)
            /\ UNCHANGED <<now, failed_login_attempts, active_sessions,
                           jwt_env, calculator_and_database, tokens, th>>

\* The byte strings _constant_time_compare is called with: a digest, the
\* digest with one byte changed (the first, a middle one, the last), a
\* shorter one and the empty one
changed(bytes, i) == [bytes EXCEPT ![i] = (bytes[i] + 1) % 256]
CompareInputs ==
    LET d == pbkdf2_hmac(utf8(Pattern), CHOOSE salt \in Salts : TRUE)
    IN  { d, changed(d, 1), changed(d, digest_length \div 2),
          changed(d, digest_length), SubSeq(d, 1, digest_length - 1), <<>> }

\* one call of SecureHasher._constant_time_compare
ConstantTimeCompare ==
    \E a \in CompareInputs, b \in CompareInputs :
        LET r == constant_time_compare(a, b)
        IN  /\ last' = [op |-> "constant_time_compare", a |-> a, b |-> b,
                        equal |-> r.equal, steps |-> r.steps]
            /\ UNCHANGED <<now, failed_login_attempts, active_sessions,
                           jwt_env, calculator_and_database, tokens, th>>

NextHash ==
    \/ SecureHashPassword \/ HashPassword \/ VerifyPassword
    \/ SecureVerifyStored \/ VerifyStored \/ ConstantTimeCompare

SpecHash == Init /\ [][NextHash]_vars

\* ------------------------------------------------- validating passwords
\*
\* SpecPolicy: calls of the two password validators and of register_user, each
\* a function of its arguments (and, for register_user, of what the database
\* does).

\* a password longer than max_length
LongPassword == [i \in 1..(max_length + 4) |-> Pattern[((i - 1) % 4) + 1]]

PolicyPasswords ==
    { Str(<<"A", "a", "1", "!", "a", "a", "a", "a">>), Str(<<"s", "h", "o", "r", "t">>), Str(<<"A", "a", "1", "!", "a", "b", "c", "d">>),
      Str(<<"p", "a", "s", "s", "w", "o", "r", "d">>), Str(<<"P", "A", "S", "S", "W", "O", "R", "D">>),
      Str(<<"a", "d", "m", "i", "n">>), Str(<<"A", "d", "m", "i", "n">>), Str(<<"a", "b", "c", "1", "2", "3">>), Str(<<"A", "B", "C", "1", "2", "3">>),
      Str(<<"A", "a", "1", "!">>), Str(<<"a", "a", "a">>), Str(<<"A", "A", "1", "1", "!", "!", "a", "a">>), Str(<<"A", "a", "1", "!", "b", "b", "b", "c">>),
      Str(<<LineFeed, LineFeed, LineFeed, "A", "a", "1", "!", "b">>),
      Str(<<EAcuteUpper, EAcute, "1", "!", "w", "x", "y", "z">>),
      Str(<<>>), Str(LongPassword), NotStrPw }

\* the configurations of a PasswordValidator: the defaults, each character
\* class switched off, other lengths, other deny-lists, and no rule but the
\* two without a switch
Requirements ==
    { PasswordRequirements,
      [PasswordRequirements EXCEPT !.require_lowercase = FALSE],
      [PasswordRequirements EXCEPT !.require_uppercase = FALSE],
      [PasswordRequirements EXCEPT !.require_numbers = FALSE],
      [PasswordRequirements EXCEPT !.require_special_chars = FALSE],
      [PasswordRequirements EXCEPT !.min_length = 4, !.max_length = 6],
      [PasswordRequirements EXCEPT !.forbidden_patterns = <<>>],
      [PasswordRequirements EXCEPT !.forbidden_patterns = << <<"A", "d", "m", "i", "n">> >>],
      [PasswordRequirements EXCEPT
           !.forbidden_patterns = << <<"A", "a", "1", "!", "a", "b", "c", "d">>, <<"a", "d", "m", "i", "n">> >>],
      [min_length |-> 0, max_length |-> max_length,
       require_uppercase |-> FALSE, require_lowercase |-> FALSE,
       require_numbers |-> FALSE, require_special_chars |-> FALSE,
       forbidden_patterns |-> <<>>] }

ValidatePasswordStrength ==
    \E requirements \in Requirements, password \in PolicyPasswords :
        LET r == validate_password_strength(requirements, password)
        IN  /\ last' = [op |-> "validate_password_strength",
                        requirements |-> requirements, password |-> password,
                        ok |-> r.ok, errors |-> r.errors]
            /\ UNCHANGED <<now, failed_login_attempts, active_sessions,
                           jwt_env, calculator_and_database, tokens, th>>

ValidatePassword ==
    \E password \in PolicyPasswords :
        LET r == validate_password(password)
        IN  /\ last' = [op |-> "validate_password", password |-> password,
                        ok |-> r.ok, errors |-> r.errors]
            /\ UNCHANGED <<now, failed_login_attempts, active_sessions,
                           jwt_env, calculator_and_database, tokens, th>>

RegisterUsernames ==
    { Str(<<" ", "a", "_", "b", "-", "c", " ">>), Str(<<"a", "b">>), Str(<<"a", " ", "b">>), NotStrName }
RegisterEmails ==
    { Str(<<" ", "A", ".", "b", "@", "C", "-", "d", ".", "C", "O", " ">>),
      Str(<<"a", "@", "b">>), Str(<<"a", "@", "b", ".", "c">>) }
RegisterPasswords ==
    { Str(<<"A", "a", "1", "!", "a", "a", "a", "a">>), Str(<<"A", "a", "1", "!", "a", "b", "c", "d">>),
      Str(Secret72 \o <<"y">>), Str(<<>>) }

RegisterUser ==
    \E username \in RegisterUsernames, email \in RegisterEmails,
       password \in RegisterPasswords,
       existing_user \in {"none", "row", "raise"}, insert \in {"ok", "raise"},
       long_passwords \in LongPasswords :
        LET r == register_user(username, email, password, existing_user,
                               insert, long_passwords)
        IN  /\ last' = [op |-> "register_user", username |-> username,
                        email |-> email, password |-> password,
                        existing_user |-> existing_user, insert |-> insert,
                        long_passwords |-> long_passwords,
                        success |-> r.success, text |-> r.text, row |-> r.row]
            /\ UNCHANGED <<now, failed_login_attempts, active_sessions,
                           jwt_env, calculator_and_database, tokens, th>>

NextPolicy == ValidatePasswordStrength \/ ValidatePassword \/ RegisterUser

SpecPolicy == Init /\ [][NextPolicy]_vars

\* ----------------------------------------------------- using a connection
\*
\* SpecTx: uses of get_transaction_context, one after another, in every world.

UseTransaction ==
    \E w \in Worlds :
        /\ last' = get_transaction_context(w)
        /\ UNCHANGED <<now, failed_login_attempts, active_sessions, jwt_env, calculator_and_database,
                       tokens, th>>

NextTx == UseTransaction

SpecTx == Init /\ [][NextTx]_vars

\* --------------------------------------------------------- batches of expressions
\*
\* SpecBatch: calls of batch_calculate on every list of at most MaxBatch of
\* these expressions, and on an argument that is no list.

Expressions ==
    {Str(<<"2", " ", "+", " ", "2">>), Str(<<"3", " ", "*", " ", "3">>),
     Str(<<"6", "/", "3">>), Str(<<"1", "2", "-", "5">>), Str(<<"7">>),
     Str(<<"1", "/", "0">>), Str(<<"1", " ", "2">>), Str(<<"2", "+">>),
     Str(<<"a">>), Str(<<" ">>), NotStrName}

RECURSIVE Lists(_)
Lists(n) ==
    IF n = 0 THEN {<<>>}
    ELSE Lists(n - 1) \cup {Append(l, e) : l \in {k \in Lists(n - 1) : Len(k) = n - 1}, e \in Expressions}

BatchCalculate ==
    \E islist \in BOOLEAN, expressions \in Lists(MaxBatch) :
        /\ islist \/ expressions = <<>>
        /\ last' = batch_calculate(islist, expressions)
        /\ UNCHANGED <<now, failed_login_attempts, active_sessions, jwt_env, calculator_and_database,
                       tokens, th>>

NextBatch == BatchCalculate

SpecBatch == Init /\ [][NextBatch]_vars

\* ------------------------------------------------------ a history of calculations
\*
\* SpecHistory: a CalculationHistory of every max_size from 1 to MaxSize, and
\* calls of add_calculation, get_history and clear_history in every order, up
\* to MaxAdds results added between two moments the history is empty.

Results == {"r1", "r2"}
Limits == {NoLimit} \cup {Limit(n) : n \in -1..(MaxSize + 1)}

InitHistory ==
    /\ now = 0
    /\ failed_login_attempts = <<>>
    /\ active_sessions = <<>>
    /\ jwt_env = Unset
    /\ tokens = {}
    /\ last = NoCall
    /\ th = [t \in Threads |-> Idle]
    /\ max_size \in 1..MaxSize /\ _history = <<>> /\ added = <<>>
    /\ accounts = <<>>

HistoryCall(op, limit, ret, before) == [op |-> op, limit |-> limit, ret |-> ret, before |-> before]

AddCalculation ==
    \E result \in Results :
        /\ Len(added) < MaxAdds
        /\ _history' = add_calculation(max_size, _history, result)
        /\ added' = Append(added, result)
        /\ last' = HistoryCall("add_calculation", NoLimit, <<>>, _history)
        /\ UNCHANGED <<now, failed_login_attempts, active_sessions, jwt_env,
                       tokens, th, max_size, accounts>>

GetHistory ==
    \E limit \in Limits :
        /\ last' = HistoryCall("get_history", limit, get_history(_history, limit), _history)
        /\ UNCHANGED <<now, failed_login_attempts, active_sessions, jwt_env,
                       tokens, th, calculator_and_database>>

ClearHistory ==
    /\ _history' = clear_history(_history)
    /\ added' = <<>>
    /\ last' = HistoryCall("clear_history", NoLimit, <<>>, _history)
    /\ UNCHANGED <<now, failed_login_attempts, active_sessions, jwt_env,
                   tokens, th, max_size, accounts>>

NextHistory == AddCalculation \/ GetHistory \/ ClearHistory

SpecHistory == InitHistory /\ [][NextHistory]_vars

\* -------------------------------------------------------------- moving money
\*
\* SpecTransfer: calls of transfer_funds one after another on a table of two
\* accounts, for accounts that exist and one that does not, amounts around
\* zero and around the balances, and every behaviour of the database.

AccountIds == {1, 2, 3}
Amounts == -1..(InitialBalance + 1)

InitTransfer ==
    /\ now = 0
    /\ failed_login_attempts = <<>>
    /\ active_sessions = <<>>
    /\ jwt_env = Unset
    /\ tokens = {}
    /\ last = NoCall
    /\ th = [t \in Threads |-> Idle]
    /\ max_size = default_max_size /\ _history = <<>> /\ added = <<>>
    /\ accounts = [id \in {1, 2} |-> IF id = 1 THEN InitialBalance ELSE 1]

TransferFunds ==
    \E from_account \in AccountIds, to_account \in AccountIds, amount \in Amounts, db \in Databases :
        /\ last' = transfer_funds(accounts, from_account, to_account, amount, db)
        /\ accounts' = last'.after
        /\ UNCHANGED <<now, failed_login_attempts, active_sessions, jwt_env,
                       tokens, th, max_size, _history, added>>

NextTransfer == TransferFunds

SpecTransfer == InitTransfer /\ [][NextTransfer]_vars

\* ------------------------------------------- authenticate_user, step by step
\*
\* SpecConc: the threads of a server call authenticate_user at the same time
\* (the code takes no lock). A step is one read or one write of
\* failed_login_attempts; what a call does between two of them is local.
\* The calls are for one username and carry no ip_address, so that they all
\* work on the one key "user:a".

ConcUsernames == { Str(<<"a">>) }
ConcPasswords == { Str(<<"p", "w", "1">>), Str(<<"b", "a", "d">>) }
ConcIps == { <<>> }

\* list(failed_login_attempts.keys()): the keys in the dict's insertion order,
\* which the table of the model does not keep, so every order can be the one
key_lists(table) ==
    { order \in [1..Cardinality(DOMAIN table) -> DOMAIN table] :
          \A key \in DOMAIN table : \E i \in DOMAIN order : order[i] = key }

\* the keys _record_failed_attempt and _reset_rate_limit go through
keys_of(username, ip_address) ==
    IF ip_address # <<>>
    THEN <<user_key(username), ip_key(ip_address)>>
    ELSE <<user_key(username)>>

\* thread t returns from authenticate_user
Return(t, ret) ==
    /\ th' = [th EXCEPT ![t] = Idle]
    /\ last' = ret

Goto(t, pc) == th' = [th EXCEPT ![t].pc = pc]

\* the except clause of _check_rate_limit: 'return True', on to the lookup
RateCheckError(t) == th' = [th EXCEPT ![t].pc = "lookup", ![t].todo = <<>>]

\* lines 233-243 and 285-292: input validation, current_time, the key snapshot
Begin(t) ==
    /\ th[t].pc = "idle"
    /\ \E username \in ConcUsernames, password \in ConcPasswords,
          ip_address \in ConcIps, keys \in key_lists(failed_login_attempts) :
           th' = [th EXCEPT ![t] =
                     [Idle EXCEPT !.pc = "purge_read",
                                  !.username = normalise(username.val),
                                  !.password = password,
                                  !.ip_address = ip_address,
                                  !.current_time = now,
                                  !.todo = keys]]
    /\ UNCHANGED <<now, failed_login_attempts, active_sessions, jwt_env, calculator_and_database,
                   tokens, last>>

\* lines 292-296: the next key of the snapshot, its list read and filtered
PurgeRead(t) ==
    /\ th[t].pc = "purge_read"
    /\ IF th[t].todo = <<>>
       THEN Goto(t, "count_user")
       ELSE IF Head(th[t].todo) \notin DOMAIN failed_login_attempts
       THEN RateCheckError(t)
       ELSE th' = [th EXCEPT
                      ![t].pc = "purge_write",
                      ![t].filtered =
                          recent_attempts(
                              failed_login_attempts[Head(th[t].todo)],
                              th[t].current_time - window_seconds)]
    /\ UNCHANGED <<now, failed_login_attempts, active_sessions, jwt_env, calculator_and_database,
                   tokens, last>>

\* line 293: failed_login_attempts[key] = the filtered list
PurgeWrite(t) ==
    /\ th[t].pc = "purge_write"
    /\ failed_login_attempts' =
           dict_set(failed_login_attempts, Head(th[t].todo), th[t].filtered)
    /\ th' = [th EXCEPT ![t].pc = "purge_test", ![t].filtered = <<>>]
    /\ UNCHANGED <<now, active_sessions, jwt_env, calculator_and_database, tokens, last>>

\* line 297: if not failed_login_attempts[key]
PurgeTest(t) ==
    /\ th[t].pc = "purge_test"
    /\ IF Head(th[t].todo) \notin DOMAIN failed_login_attempts
       THEN RateCheckError(t)
       ELSE IF failed_login_attempts[Head(th[t].todo)] = <<>>
       THEN Goto(t, "purge_del")
       ELSE th' = [th EXCEPT ![t].pc = "purge_read",
                             ![t].todo = Tail(th[t].todo)]
    /\ UNCHANGED <<now, failed_login_attempts, active_sessions, jwt_env, calculator_and_database,
                   tokens, last>>

\* line 298: del failed_login_attempts[key]
PurgeDel(t) ==
    /\ th[t].pc = "purge_del"
    /\ IF Head(th[t].todo) \notin DOMAIN failed_login_attempts
       THEN /\ RateCheckError(t)
            /\ UNCHANGED failed_login_attempts
       ELSE /\ failed_login_attempts' =
                   dict_del(failed_login_attempts, Head(th[t].todo))
                    /\ th' = [th EXCEPT ![t].pc = "purge_read",
                                 ![t].todo = Tail(th[t].todo)]
    /\ UNCHANGED <<now, active_sessions, jwt_env, calculator_and_database, tokens, last>>

\* line 301: username_attempts
CountUser(t) ==
    /\ th[t].pc = "count_user"
    /\ th' = [th EXCEPT
                 ![t].pc = "count_ip",
                 ![t].username_attempts =
                     Len(dict_get(failed_login_attempts,
                                  user_key(th[t].username), <<>>))]
    /\ UNCHANGED <<now, failed_login_attempts, active_sessions, jwt_env, calculator_and_database,
                   tokens, last>>

\* lines 304-308 and 242-243: ip_attempts, the comparison, the refusal
CountIp(t) ==
    /\ th[t].pc = "count_ip"
    /\ LET ip_attempts ==
               IF th[t].ip_address # <<>>
               THEN Len(dict_get(failed_login_attempts,
                                 ip_key(th[t].ip_address), <<>>))
               ELSE 0
       IN  IF within_limits(th[t].username_attempts, ip_attempts)
           THEN Goto(t, "lookup") /\ UNCHANGED last
           ELSE Return(t, Returned(FALSE, NoUser, MsgRateLimited, 0, "none",
                                   {}, 0, 0))
    /\ UNCHANGED <<now, failed_login_attempts, active_sessions, jwt_env, calculator_and_database,
                   tokens>>

\* lines 246-262 and 317: the lookup and the verification, which touch no
\* shared state; current_time of _record_failed_attempt
Lookup(t) ==
    /\ th[t].pc = "lookup"
    /\ \E users \in LoginStores \cup {DbError} :
           IF users = DbError
           THEN Return(t, Returned(FALSE, NoUser, MsgUnavailable, 1, "none",
                                   {"lookup"}, 0, 0))
           ELSE LET user == get_user_by_email(users, th[t].username)
                    v == verify_password(hash_to_verify(user), th[t].password,
                                         short_passwords)
                IN  /\ th' = [th EXCEPT
                                 ![t].pc = IF user # NoRow /\ v.ok
                                           THEN "reset_test" ELSE "record_test",
                                 ![t].current_time = now,
                                 ![t].username_attempts = 0,
                                 ![t].password = Str(<<>>),
                                 ![t].user = user,
                                 ![t].todo = keys_of(th[t].username,
                                                     th[t].ip_address)]
                    /\ UNCHANGED last
    /\ UNCHANGED <<now, failed_login_attempts, active_sessions, jwt_env, calculator_and_database,
                   tokens>>

\* what the failure branch returns, line 276
ReturnInvalid(t) ==
    Return(t, Returned(FALSE, NoUser, MsgInvalid, 1,
                       IF th[t].user # NoRow THEN "stored" ELSE "dummy",
                       {}, 0, 0))

\* what the success branch returns, lines 266-270
ReturnSuccess(t) ==
    Return(t, Returned(TRUE, user_dict(th[t].user), MsgSuccess, 1, "stored",
                       {}, 0, 0))

\* lines 321 and 328: if key not in failed_login_attempts
RecordTest(t) ==
    /\ th[t].pc = "record_test"
    /\ IF th[t].todo = <<>>
       THEN ReturnInvalid(t)
       ELSE /\ Goto(t, IF Head(th[t].todo) \in DOMAIN failed_login_attempts
                       THEN "record_append" ELSE "record_create")
            /\ UNCHANGED last
    /\ UNCHANGED <<now, failed_login_attempts, active_sessions, jwt_env, calculator_and_database,
                   tokens>>

\* lines 322 and 329: failed_login_attempts[key] = []
RecordCreate(t) ==
    /\ th[t].pc = "record_create"
    /\ failed_login_attempts' =
           dict_set(failed_login_attempts, Head(th[t].todo), <<>>)
    /\ Goto(t, "record_append")
    /\ UNCHANGED <<now, active_sessions, jwt_env, calculator_and_database, tokens, last>>

\* lines 323 and 330: failed_login_attempts[key].append(current_time); a
\* KeyError ends _record_failed_attempt in its except clause
RecordAppend(t) ==
    /\ th[t].pc = "record_append"
    /\ IF Head(th[t].todo) \notin DOMAIN failed_login_attempts
       THEN /\ ReturnInvalid(t)
            /\ UNCHANGED failed_login_attempts
       ELSE /\ failed_login_attempts' =
                   append_attempt(failed_login_attempts, Head(th[t].todo),
                                  th[t].current_time)
            /\ th' = [th EXCEPT ![t].pc = "record_test",
                                 ![t].todo = Tail(th[t].todo)]
            /\ UNCHANGED last
    /\ UNCHANGED <<now, active_sessions, jwt_env, calculator_and_database, tokens>>

\* lines 339 and 344: if key in failed_login_attempts
ResetTest(t) ==
    /\ th[t].pc = "reset_test"
    /\ IF th[t].todo = <<>>
       THEN ReturnSuccess(t)
       ELSE /\ IF Head(th[t].todo) \in DOMAIN failed_login_attempts
               THEN Goto(t, "reset_del")
               ELSE th' = [th EXCEPT ![t].todo = Tail(th[t].todo)]
            /\ UNCHANGED last
    /\ UNCHANGED <<now, failed_login_attempts, active_sessions, jwt_env, calculator_and_database,
                   tokens>>

\* lines 340 and 345: del failed_login_attempts[key]; a KeyError ends
\* _reset_rate_limit in its except clause
ResetDel(t) ==
    /\ th[t].pc = "reset_del"
    /\ IF Head(th[t].todo) \notin DOMAIN failed_login_attempts
       THEN /\ ReturnSuccess(t)
            /\ UNCHANGED failed_login_attempts
       ELSE /\ failed_login_attempts' =
                   dict_del(failed_login_attempts, Head(th[t].todo))
                    /\ th' = [th EXCEPT ![t].pc = "reset_test",
                                 ![t].todo = Tail(th[t].todo)]
            /\ UNCHANGED last
    /\ UNCHANGED <<now, active_sessions, jwt_env, calculator_and_database, tokens>>

\* time passes while calls are under way
ConcTick ==
    /\ now + ConcTickSeconds <= MaxConcTicks * ConcTickSeconds
    /\ now' = now + ConcTickSeconds
    /\ UNCHANGED <<failed_login_attempts, active_sessions, jwt_env, calculator_and_database, tokens,
                   last, th>>

NextConc ==
    \/ ConcTick
    \/ \E t \in Threads :
           \/ Begin(t) \/ PurgeRead(t) \/ PurgeWrite(t) \/ PurgeTest(t)
           \/ PurgeDel(t) \/ CountUser(t) \/ CountIp(t) \/ Lookup(t)
           \/ RecordTest(t) \/ RecordCreate(t) \/ RecordAppend(t)
           \/ ResetTest(t) \/ ResetDel(t)

SpecConc == Init /\ [][NextConc]_vars

\* ------------------------------------------------------------------- claims

\* a call that passes the input validation of authenticate_user
ValidCall(username, password) ==
    /\ username.isstr /\ password.isstr
    /\ strip(username.val) # <<>> /\ password.val # <<>>

\* the failures of a key that lie inside the trailing 900 s at time t
InWindow(table, key, t) ==
    IF key \in DOMAIN table
    THEN Cardinality({i \in 1..Len(table[key]) : t - table[key][i] < 900})
    ELSE 0

\* the identity key or the origin key of a call holds 5 failures inside the window
Exhausted(table, t, username, ip_address) ==
    \/ InWindow(table, user_key(username), t) >= 5
    \/ ip_address # <<>> /\ InWindow(table, ip_key(ip_address), t) >= 5

\* C1: in every reachable state the rate check of a key that holds 5 or more
\* failures inside the trailing 900 s returns False, and the rate check of a
\* username and an address whose keys both hold fewer than 5 returns True.
C1_RateLimitThreshold ==
    \A username \in UsernameInputs, ip_address \in IpInputs :
        username.isstr =>
        LET u == normalise(username.val)
            allowed == check_rate_limit(failed_login_attempts, now, u,
                                        ip_address).allowed
            nu == InWindow(failed_login_attempts, user_key(u), now)
            ni == InWindow(failed_login_attempts, ip_key(ip_address), now)
        IN  /\ nu >= 5 => ~allowed
            /\ (ip_address # <<>> /\ ni >= 5) => ~allowed
            /\ (nu < 5 /\ (ip_address = <<>> \/ ni < 5)) => allowed

\* a key holds 5 failures inside the window and the last call was refused for it
C1_Witness ==
    /\ InWindow(failed_login_attempts, user_key(<<"a">>), now) = 5
    /\ last.msg = MsgRateLimited

\* C2: from every reachable state, a call that passes input validation while
\* one of its two keys is exhausted returns the rate-limited failure whatever
\* the password and the stored credentials are, with no credential lookup and
\* no verify_password call.
C2_RateCheckFirst ==
    \A username \in UsernameInputs, password \in PasswordInputs,
       ip_address \in IpInputs, users \in UserStores :
        (/\ ValidCall(username, password)
         /\ Exhausted(failed_login_attempts, now, normalise(username.val),
                      ip_address))
        => LET r == authenticate_user(failed_login_attempts, now, username,
                                      password, ip_address, users).ret
           IN  /\ ~r.ok /\ r.user = NoUser /\ r.msg = MsgRateLimited
               /\ r.lookups = 0 /\ r.verifies = 0

\* the last call was refused by the rate check, and in this state the call
\* with the registered user's correct password is refused too
C2_Witness ==
    /\ last.msg = MsgRateLimited /\ last.lookups = 0 /\ last.verifies = 0
    /\ Exhausted(failed_login_attempts, now, <<"a">>, <<>>)
    /\ authenticate_user(failed_login_attempts, now, Str(<<" ", "A", " ">>),
                         Str(<<"p", "w", "1">>), <<>>,
                         {UserRow(1, <<"a">>, BcryptHash(<<"p", "w", "1">>))}).ret.msg
           = MsgRateLimited

\* C3: from every reachable state, a call that succeeds leaves no record for
\* the username key and none for the key of the address it was made from, so
\* that both hold zero failures and the rate check for them returns True.
C3_ResetOnSuccess ==
    \A username \in UsernameInputs, password \in PasswordInputs,
       ip_address \in IpInputs, users \in UserStores :
        LET r == authenticate_user(failed_login_attempts, now, username,
                                   password, ip_address, users)
            u == normalise(username.val)
        IN  r.ret.ok =>
            /\ user_key(u) \notin DOMAIN r.table
            /\ ip_address # <<>> => ip_key(ip_address) \notin DOMAIN r.table
            /\ InWindow(r.table, user_key(u), now) = 0
            /\ InWindow(r.table, ip_key(ip_address), now) = 0
            /\ check_rate_limit(r.table, now, u, ip_address).allowed

\* a call succeeded and its reset took recorded failures out of the table
C3_Witness == last.ok /\ last.cleared >= 2

\* C4: from every reachable state, a call that reaches the rate check leaves
\* no timestamp in the table that is 900 s old or older, and it is not refused
\* as rate-limited when fewer than 5 failures of each of its keys lie inside
\* the window, however many older ones the table still held.
C4_SlidingWindow ==
    \A username \in UsernameInputs, password \in PasswordInputs,
       ip_address \in IpInputs, users \in UserStores :
        ValidCall(username, password) =>
        LET r == authenticate_user(failed_login_attempts, now, username,
                                   password, ip_address, users)
        IN  /\ \A key \in DOMAIN r.table :
                   /\ r.table[key] # <<>>
                   /\ \A i \in 1..Len(r.table[key]) :
                          now - r.table[key][i] < 900
            /\ ~Exhausted(failed_login_attempts, now,
                          normalise(username.val), ip_address)
               => r.ret.msg # MsgRateLimited

\* a key that held 5 failures was allowed again: the call purged old
\* timestamps, went on to the verification and recorded a fifth failure
C4_Witness ==
    /\ last.purged >= 1 /\ last.msg = MsgInvalid
    /\ Len(dict_get(failed_login_attempts, user_key(<<"a">>), <<>>)) = 5

\* C5: from every reachable state, a call that passes input validation is
\* refused as rate-limited exactly when its username key or its address key is
\* exhausted, whatever the other key holds.
C5_TwoAxes ==
    \A username \in AxesUsernames, password \in AxesPasswords,
       ip_address \in AxesIps, users \in AxesStores :
        ValidCall(username, password) =>
        LET r == authenticate_user(failed_login_attempts, now, username,
                                   password, ip_address, users).ret
            u == normalise(username.val)
        IN  r.msg = MsgRateLimited <=>
            \/ InWindow(failed_login_attempts, user_key(u), now) >= 5
            \/ /\ ip_address # <<>>
               /\ InWindow(failed_login_attempts, ip_key(ip_address), now) >= 5

\* address 1 is exhausted by failures spread over a and b, no username is
\* exhausted, c has no failure, and the last call was refused
C5_Witness ==
    /\ last.msg = MsgRateLimited
    /\ InWindow(failed_login_attempts, ip_key(<<"1">>), now) = 5
    /\ InWindow(failed_login_attempts, user_key(<<"a">>), now) \in 1..4
    /\ InWindow(failed_login_attempts, user_key(<<"b">>), now) \in 1..4
    /\ user_key(<<"c">>) \notin DOMAIN failed_login_attempts
    /\ \A ip \in AxesIps \ {<<>>, <<"1">>} :
           InWindow(failed_login_attempts, ip_key(ip), now) < 5

\* C6: from every reachable state and for every valid call, the call made when
\* the users table has no row for the username and the call made when it has a
\* row whose password is another one return the same (ok, user, msg) and leave
\* the same failure table.
C6_NoEnumeration ==
    \A username \in UsernameInputs, password \in PasswordInputs,
       ip_address \in IpInputs :
        ValidCall(username, password) =>
        LET u == normalise(username.val)
            absent == authenticate_user(failed_login_attempts, now, username,
                                        password, ip_address, {})
        IN  \A other \in {<<"p", "w", "1">>, <<"b", "a", "d">>} \ {password.val} :
                LET wrong == authenticate_user(
                                 failed_login_attempts, now, username, password,
                                 ip_address, {UserRow(1, u, BcryptHash(other))})
                IN  /\ absent.ret.ok = wrong.ret.ok
                    /\ absent.ret.user = wrong.ret.user
                    /\ absent.ret.msg = wrong.ret.msg
                    /\ absent.table = wrong.table

\* a call for a username without a row was verified against the dummy hash and
\* refused as invalid
C6_Witness ==
    /\ last.msg = MsgInvalid /\ last.vhash = "dummy"
    /\ user_key(<<"a">>) \in DOMAIN failed_login_attempts

\* C7: every successful authenticate_user call puts a session of the
\* authenticated user into active_sessions that was not there before.
C7_SuccessCreatesSession ==
    [][(last'.op = "authenticate_user" /\ last'.ok /\ now' = now)
       => \E session_id \in DOMAIN active_sessions' :
              /\ session_id \notin DOMAIN active_sessions
              /\ active_sessions'[session_id].user_id = last'.user.id]_vars

\* C8: every call in which an exception was caught (in the credential lookup
\* or inside the password verification) returns the one generic
\* unavailable failure.
C8_InternalErrorsUnavailable ==
    last.errors # {} => (~last.ok /\ last.msg = MsgUnavailable)

\* How often a list holds a timestamp.
Occurrences(attempts, attempt_time) ==
    Cardinality({i \in 1..Len(attempts) : attempts[i] = attempt_time})

\* C9: no lost updates under concurrency. Whatever single read or write of
\* failed_login_attempts a thread does next, every failure timestamp of a key
\* that lies inside the window is in the key's list after the step as often as
\* before it, unless the step is the delete of a reset for that key (the calls
\* of the threads interleaving read by read and write by write).
C9_NoLostUpdate ==
    [][\A key \in DOMAIN failed_login_attempts :
          \/ \E t \in Threads :
                 /\ th[t].pc = "reset_del"
                 /\ th'[t].pc = "reset_test"
                 /\ Head(th[t].todo) = key
          \/ \A i \in 1..Len(failed_login_attempts[key]) :
                 LET attempt_time == failed_login_attempts[key][i]
                 IN  attempt_time > now - 900 =>
                         Occurrences(failed_login_attempts[key], attempt_time)
                             <= Occurrences(dict_get(failed_login_attempts', key, <<>>),
                                            attempt_time)]_vars

\* C10: a token create_jwt_token returned is accepted, with the payload it was
\* issued with, when verified before its exp, is refused with 'Token has
\* expired' when verified after it, and is verified with the key it was
\* signed with.
C10_TokenRoundTrip ==
    (last.op = "verify_jwt_token" /\ last.token \in tokens) =>
        /\ last.at < last.token.payload.exp
           => (last.valid /\ last.payload = last.token.payload)
        /\ last.at > last.token.payload.exp
           => (~last.valid /\ last.error = "Token has expired")
        /\ last.key = last.token.sig.key

\* What is wrong with a presented token when it is checked with a key at a
\* time: the failure causes of the specification that apply to it (none is
\* named for the very second of the expiry, which libraries treat differently).
ErrorKinds(token, key, t) ==
    IF token.form # "jwt" THEN {"malformed"}
    ELSE IF token.sig.key # key \/ token.sig.payload # token.payload
    THEN {"bad_signature"}
    ELSE IF token.payload.exp = t THEN {}
    ELSE {kind \in {"expired", "bad_issuer", "bad_audience"} :
             \/ kind = "expired" /\ token.payload.exp < t
             \/ kind = "bad_issuer" /\ token.payload.iss # "qodo-merge-app"
             \/ kind = "bad_audience" /\ token.payload.aud # "qodo-merge-users"}

\* C11: verify_jwt_token reports each failure cause with an error of its own:
\* whenever two presented tokens fail for one cause each (expired, bad
\* signature, bad issuer, bad audience, malformed) and the causes differ, the
\* two error results differ.
C11_DistinctErrorKinds ==
    \A t1 \in presented(tokens), t2 \in presented(tokens),
       drawn \in DrawnKeys, at_expiry \in BOOLEAN :
        LET key == IF jwt_env # Unset THEN jwt_env ELSE drawn
            k1 == ErrorKinds(t1, key, now)
            k2 == ErrorKinds(t2, key, now)
            r1 == verify_jwt_token(jwt_env, now, t1, drawn, at_expiry)
            r2 == verify_jwt_token(jwt_env, now, t2, drawn, at_expiry)
        IN  (Cardinality(k1) = 1 /\ Cardinality(k2) = 1 /\ k1 # k2)
                => (~r1.valid /\ ~r2.valid /\ r1.error # r2.error)

\* C12: hash/verify round trip of both hashers. Every non-empty secret of at
\* most 128 characters is hashed without an exception, and a verification
\* against the hash made from a secret returns true exactly when the password
\* given is that secret.
C12_HashVerifyRoundTrip ==
    /\ (/\ last.op = "hash_password"
        /\ last.secret.isstr
        /\ Len(last.secret.val) >= 1 /\ Len(last.secret.val) <= 128)
           => ~last.raised
    /\ (last.op = "verify_password" /\ last.secret.isstr /\ last.password.isstr)
           => (last.ok <=> last.password = last.secret)

\* A string that bytes.fromhex takes: hexadecimal digits, an even number of
\* them, and blanks.
IsHex(s) ==
    /\ \A i \in 1..Len(s) : s[i] \in Whitespace \/ hex_value(s[i]) >= 0
    /\ Cardinality({i \in 1..Len(s) : s[i] \notin Whitespace}) % 2 = 0

\* A stored hash SecureHasher.verify_password can take apart: a string with a
\* colon, hexadecimal before the first colon and after it.
WellFormed(stored_hash) ==
    /\ stored_hash.isstr
    /\ \E i \in 1..Len(stored_hash.val) :
           /\ stored_hash.val[i] = ":"
           /\ \A j \in 1..(i - 1) : stored_hash.val[j] # ":"
           /\ IsHex(SubSeq(stored_hash.val, 1, i - 1))
           /\ IsHex(SubSeq(stored_hash.val, i + 1, Len(stored_hash.val)))

\* C13 (as stated): verify_password returns False for a stored hash that is
\* malformed, and True only for a stored hash that hash_password returns for
\* the password given (with some salt).
C13_OnlyHashesOfHashPassword ==
    last.op = "verify_password" =>
        IF last.hasher = "SecureHasher"
        THEN /\ ~WellFormed(last.stored_hash) => ~last.ok
             /\ last.ok =>
                    \E salt \in Salts :
                        last.stored_hash =
                            Str(SecureHasher_hash_password(last.password, salt).hash)
        ELSE /\ last.stored_hash.kind # "bcrypt" => ~last.ok
             /\ last.ok =>
                    /\ last.password.isstr
                    /\ last.stored_hash.pw = bcrypt_key(utf8(last.password.val))

\* C13 (amended): verify_password returns False for a stored hash that is
\* malformed, and True only for a stored hash that decodes to a salt and a
\* digest of 32 bytes that is the PBKDF2 digest of the password given under
\* that salt (for the bcrypt hasher: that is the bcrypt hash of the password).
C13_VerifyRejectsMalformed ==
    last.op = "verify_password" =>
        IF last.hasher = "SecureHasher"
        THEN /\ ~WellFormed(last.stored_hash) => ~last.ok
             /\ last.ok =>
                    LET digest == fromhex(hash_part(last.stored_hash.val)).bytes
                        salt == fromhex(salt_part(last.stored_hash.val)).bytes
                    IN  /\ Len(digest) = 32
                        /\ digest = pbkdf2_hmac(utf8(last.password.val), salt)
        ELSE /\ last.stored_hash.kind # "bcrypt" => ~last.ok
             /\ last.ok =>
                    /\ last.password.isstr
                    /\ last.stored_hash.pw = bcrypt_key(utf8(last.password.val))

\* a stored hash with a digest part that is no hexadecimal made bytes.fromhex
\* raise, and one with an empty digest part was compared: both gave False
C13_Witness ==
    /\ last.op = "verify_password" /\ last.hasher = "SecureHasher"
    /\ last.password = ForgedFrom
    /\ ~last.ok
    /\ \/ last.caught
       \/ (WellFormed(last.stored_hash) /\ hash_part(last.stored_hash.val) = <<>>)

\* C20: _constant_time_compare(a, b) returns True exactly when a and b are the
\* same byte sequence, and for two inputs of the same length the loop passes
\* over every pair of bytes, wherever the first difference is.
C20_ConstantTimeCompare ==
    last.op = "constant_time_compare" =>
        /\ last.equal <=> last.a = last.b
        /\ Len(last.a) = Len(last.b) => last.steps = Len(last.a)

\* two digests that differ in their first byte were compared to the end
C20_Witness ==
    /\ last.op = "constant_time_compare"
    /\ Len(last.a) = digest_length /\ Len(last.b) = digest_length
    /\ last.a[1] # last.b[1]
    /\ ~last.equal
    /\ last.steps = digest_length

\* The rules of the password policy, in their order, each with whether a
\* password breaks it under a configuration and the entry that reports it.
HasRun(p) ==
    \E i \in 1..(Len(p) - 2) : p[i + 1] = p[i] /\ p[i + 2] = p[i]
OnDenyList(p, list) == \E i \in DOMAIN list : lower(list[i]) = lower(p)
Rules(rq, p) ==
    << [broken |-> Len(p) < rq.min_length, entry |-> ErrMinLength(rq.min_length)],
       [broken |-> Len(p) > rq.max_length, entry |-> ErrMaxLength(rq.max_length)],
       [broken |-> rq.require_lowercase /\ \A i \in DOMAIN p : ~islower(p[i]),
        entry |-> ErrLowercase],
       [broken |-> rq.require_uppercase /\ \A i \in DOMAIN p : ~isupper(p[i]),
        entry |-> ErrUppercase],
       [broken |-> rq.require_numbers /\ \A i \in DOMAIN p : ~isdigit(p[i]),
        entry |-> ErrNumber],
       [broken |-> rq.require_special_chars
                   /\ \A i \in DOMAIN p : p[i] \notin special_chars,
        entry |-> ErrSpecial],
       [broken |-> OnDenyList(p, rq.forbidden_patterns), entry |-> ErrCommon],
       [broken |-> HasRun(p), entry |-> ErrRepeated] >>
Violations(rq, p) ==
    LET broken == SelectSeq(Rules(rq, p), LAMBDA rule : rule.broken)
    IN  [i \in DOMAIN broken |-> broken[i].entry]

\* the configuration a validation was made under: AuthManager.validate_password
\* has the default lengths and classes and its own deny-list
ConfigOf(call) ==
    IF call.op = "validate_password_strength" THEN call.requirements
    ELSE [PasswordRequirements EXCEPT !.forbidden_patterns = weak_passwords]

\* C14: for every string password, the violations list a validator returns
\* holds one entry for each rule the password breaks and none for a rule it
\* keeps, in the order min length, max length, lowercase, uppercase, digit,
\* symbol, deny-list, repeated run, and ok is true exactly when it is empty.
C14_EveryViolationReported ==
    (/\ last.op \in {"validate_password_strength", "validate_password"}
     /\ last.password.isstr)
        => /\ last.errors = Violations(ConfigOf(last), last.password.val)
           /\ last.ok <=> last.errors = <<>>

\* C15 (as stated): under the default configuration "Aa1!aaaa" is valid with
\* no violations and "short" is invalid with a violation about its length.
C15_ExamplesAsStated ==
    (/\ last.op \in {"validate_password_strength", "validate_password"}
     /\ ConfigOf(last).min_length = min_length
     /\ ConfigOf(last).max_length = max_length
     /\ ConfigOf(last).require_lowercase /\ ConfigOf(last).require_uppercase
     /\ ConfigOf(last).require_numbers /\ ConfigOf(last).require_special_chars
     /\ ConfigOf(last).forbidden_patterns \in {forbidden_patterns, weak_passwords})
        => /\ last.password = Str(<<"A", "a", "1", "!", "a", "a", "a", "a">>)
                  => last.ok /\ last.errors = <<>>
           /\ last.password = Str(<<"s", "h", "o", "r", "t">>)
                  => /\ ~last.ok
                     /\ \E i \in DOMAIN last.errors :
                            last.errors[i] = ErrMinLength(min_length)

\* C15 (amended): under the default configuration
\* PasswordValidator.validate_password_strength("Aa1!aaaa") is invalid with the
\* one violation of the repeated run 'aaaa', AuthManager.validate_password
\* ("Aa1!aaaa") is valid with no violations, and both report "short" as invalid
\* with the violations of the minimum length, the uppercase letter, the number
\* and the special character.
C15_DefaultExamples ==
    /\ (last.op = "validate_password_strength"
            /\ last.requirements = PasswordRequirements
            /\ last.password = Str(<<"A", "a", "1", "!", "a", "a", "a", "a">>))
           => ~last.ok /\ last.errors = <<ErrRepeated>>
    /\ (last.op = "validate_password"
            /\ last.password = Str(<<"A", "a", "1", "!", "a", "a", "a", "a">>))
           => last.ok /\ last.errors = <<>>
    /\ (/\ \/ last.op = "validate_password"
            \/ (last.op = "validate_password_strength"
                    /\ last.requirements = PasswordRequirements)
        /\ last.password = Str(<<"s", "h", "o", "r", "t">>))
           => /\ ~last.ok
              /\ last.errors =
                     <<ErrMinLength(8), ErrUppercase, ErrNumber, ErrSpecial>>

\* the default PasswordValidator has refused "Aa1!aaaa"
C15_Witness ==
    /\ last.op = "validate_password_strength"
    /\ last.requirements = PasswordRequirements
    /\ last.password = Str(<<"A", "a", "1", "!", "a", "a", "a", "a">>)
    /\ ~last.ok

\* C16: a password with a run of three or more identical consecutive
\* characters is reported by PasswordValidator.validate_password_strength and
\* by AuthManager.validate_password, and register_user does not accept it.
C16_RepeatedRunReported ==
    /\ (/\ last.op \in {"validate_password_strength", "validate_password"}
        /\ last.password.isstr /\ HasRun(last.password.val))
           => /\ ~last.ok
              /\ \E i \in DOMAIN last.errors : last.errors[i] = ErrRepeated
    /\ (/\ last.op = "register_user"
        /\ last.password.isstr /\ HasRun(last.password.val))
           => ~last.success

\* C17: under every configured deny-list, a password is reported as too common
\* exactly when it equals an entry of the list, letter case ignored.
C17_DenyListIgnoresCase ==
    (last.op = "validate_password_strength" /\ last.password.isstr)
        => ((\E i \in DOMAIN last.errors : last.errors[i] = ErrCommon)
               <=> OnDenyList(last.password.val,
                              last.requirements.forbidden_patterns))

\* a step that is one call of validate_session, of logout_user
ValidateStep == last'.op = "validate_session" /\ now' = now
LogoutStep == last'.op = "logout_user" /\ now' = now

\* every session but the one of id is after the step what it was before
OthersKept(id) ==
    /\ (DOMAIN active_sessions') \ {id} = (DOMAIN active_sessions) \ {id}
    /\ \A other \in (DOMAIN active_sessions) \ {id} :
           active_sessions'[other] = active_sessions[other]

\* C18: validate_session of a session in the table answers valid exactly
\* while now - created_at <= 3600; a valid answer changes last_accessed of
\* that session and nothing else (created_at, and with it the expiry, stays);
\* the validation of an expired session removes it; and the validation of an
\* id that is not in the table answers 'Session not found'.
C18_ExpiryFixedAtCreation ==
    [][ (ValidateStep /\ strip(last'.id) # <<>>) =>
          IF last'.id \notin DOMAIN active_sessions
          THEN /\ ~last'.valid /\ last'.msg = "Session not found"
               /\ active_sessions' = active_sessions
          ELSE IF now - active_sessions[last'.id].created_at <= 3600
          THEN /\ last'.valid
               /\ last'.id \in DOMAIN active_sessions'
               /\ active_sessions'[last'.id] =
                      [active_sessions[last'.id] EXCEPT !.last_accessed = now]
               /\ OthersKept(last'.id)
          ELSE /\ ~last'.valid /\ last'.msg = "Session has expired"
               /\ last'.id \notin DOMAIN active_sessions'
               /\ OthersKept(last'.id) ]_vars

\* a session validated more than 3600 s after its creation, after it was
\* accessed later than it was created, is gone, and another one is kept
C18_Witness ==
    /\ last.op = "validate_session" /\ last.msg = "Session has expired"
    /\ last.id \notin DOMAIN active_sessions
    /\ \E other \in DOMAIN active_sessions :
           active_sessions[other].last_accessed
               > active_sessions[other].created_at

\* C19: logout_user(id) returns True exactly when id is in the table, the id
\* is not in the table afterwards, every other session is unchanged, and a
\* validate_session or logout_user of an id that is not in the table answers
\* invalid, False.
C19_LogoutDestroysSession ==
    [][ /\ LogoutStep =>
             /\ last'.result <=> last'.id \in DOMAIN active_sessions
             /\ last'.id \notin DOMAIN active_sessions'
             /\ OthersKept(last'.id)
        /\ (ValidateStep /\ last'.id \notin DOMAIN active_sessions) =>
             /\ ~last'.valid
             /\ active_sessions' = active_sessions ]_vars

\* a logout has returned True, its session is gone and another one is there
C19_Witness ==
    /\ last.op = "logout_user" /\ last.result
    /\ last.id \notin DOMAIN active_sessions
    /\ DOMAIN active_sessions # {}

\* the failures of a table that lie inside the window at time t, key by key
Fresh(table, t) ==
    LET kept(key) == SelectSeq(table[key], LAMBDA at : t - at < 900)
    IN  [key \in {k \in DOMAIN table : kept(k) # <<>>} |-> kept(key)]

\* the list of a key, empty when the table has no such key
ListOf(table, key) == IF key \in DOMAIN table THEN table[key] ELSE <<>>

\* C23: from every reachable state, a call that passes input validation and
\* the rate check and whose lookup returns makes one verify_password call,
\* with the stored hash when the lookup found a row and with the dummy hash
\* when it found none.
C23_OneVerifyPerAttempt ==
    \A username \in UsernameInputs, password \in PasswordInputs,
       ip_address \in IpInputs, users \in UserStores \ {DbError} :
        (/\ ValidCall(username, password)
         /\ ~Exhausted(failed_login_attempts, now, normalise(username.val),
                       ip_address))
        => LET r == authenticate_user(failed_login_attempts, now, username,
                                      password, ip_address, users).ret
               found == \E row \in users : row[3] = normalise(username.val)
           IN  /\ r.lookups = 1 /\ r.verifies = 1
               /\ r.vhash = IF found THEN "stored" ELSE "dummy"

\* a call for a username without a row has verified against the dummy hash
C23_Witness ==
    /\ last.op = "authenticate_user" /\ last.msg = MsgInvalid
    /\ last.lookups = 1 /\ last.verifies = 1 /\ last.vhash = "dummy"

\* C24: from every reachable state, a call that ends with invalid credentials
\* leaves the failures inside the window and, after them, the time of the
\* call in the list of the username key, the same in the list of the key of
\* the address it came from, and the failures inside the window and nothing
\* else in the list of every other key.
C24_FailureRecordedOnBothKeys ==
    \A username \in UsernameInputs, password \in PasswordInputs,
       ip_address \in IpInputs, users \in UserStores :
        LET r == authenticate_user(failed_login_attempts, now, username,
                                   password, ip_address, users)
            before == Fresh(failed_login_attempts, now)
            touched ==
                {user_key(normalise(username.val))}
                \cup (IF ip_address # <<>> THEN {ip_key(ip_address)} ELSE {})
        IN  r.ret.msg = MsgInvalid =>
            /\ DOMAIN r.table = (DOMAIN before) \cup touched
            /\ \A key \in touched :
                   r.table[key] = Append(ListOf(before, key), now)
            /\ \A key \in (DOMAIN r.table) \ touched :
                   r.table[key] = before[key]

\* a call from address 1 has failed after the clock moved, and both its keys
\* end with the time of the call
C24_Witness ==
    /\ last.msg = MsgInvalid /\ now > 0
    /\ ListOf(failed_login_attempts, user_key(<<"a">>)) # <<>>
    /\ ListOf(failed_login_attempts, ip_key(<<"1">>)) # <<>>
    /\ LET u == failed_login_attempts[user_key(<<"a">>)]
           i == failed_login_attempts[ip_key(<<"1">>)]
       IN  u[Len(u)] = now /\ i[Len(i)] = now /\ Len(u) > Len(i)

\* the instants at which a key is looked at again
Later == {now + k * 450 : k \in 0..2}

\* C28: from every reachable state, a call that is refused by the input
\* validation, by the rate check or for a lookup error adds no failure to the
\* table, and the rate check of a username and an address allows them at every
\* later instant at which fewer than 5 of the failures now in the table of
\* each key are inside the window.
C28_LockoutEnds ==
    \A username \in UsernameInputs, password \in PasswordInputs,
       ip_address \in IpInputs, users \in UserStores :
        LET r == authenticate_user(failed_login_attempts, now, username,
                                   password, ip_address, users)
        IN  /\ r.ret.msg \in {MsgFormat, MsgRequired} =>
                   r.table = failed_login_attempts
            /\ r.ret.msg \in {MsgRateLimited, MsgUnavailable} =>
                   r.table = Fresh(failed_login_attempts, now)
            /\ (username.isstr /\ r.ret.msg = MsgRateLimited) =>
                   \A t \in Later :
                       ~Exhausted(r.table, t, normalise(username.val), ip_address)
                       => check_rate_limit(r.table, t, normalise(username.val),
                                           ip_address).allowed

\* a call made 450 s into a lockout was refused, the five failures of time 0
\* are all the key holds, and the key is allowed again at time 900
C28_Witness ==
    /\ last.msg = MsgRateLimited /\ now = 450
    /\ ListOf(failed_login_attempts, user_key(<<"a">>)) = <<0, 0, 0, 0, 0>>
    /\ check_rate_limit(failed_login_attempts, 900, <<"a">>, <<>>).allowed

\* C29: from every reachable state, a successful call of a username that has
\* no failure on record, made from an address, leaves the failures of that
\* address (all recorded for other usernames) in the table.
C29_OriginCountSurvivesOtherLogin ==
    \A username \in AxesUsernames, password \in AxesPasswords,
       ip_address \in AxesIps \ {<<>>}, users \in AxesStores :
        LET r == authenticate_user(failed_login_attempts, now, username,
                                   password, ip_address, users)
        IN  (/\ r.ret.ok
             /\ InWindow(failed_login_attempts,
                         user_key(normalise(username.val)), now) = 0)
            => InWindow(r.table, ip_key(ip_address), now)
                   = InWindow(failed_login_attempts, ip_key(ip_address), now)

\* thread t returns from _check_rate_limit, from _record_failed_attempt
CheckReturns(t) == th[t].pc = "count_ip" /\ th'[t].pc # "count_ip"
RecordReturns(t) ==
    th[t].pc = "record_test" /\ th[t].todo = <<>> /\ th'[t].pc = "idle"

\* the table holds no empty list, and no failure of 900 s ago or earlier for
\* the keys of a call
Purged(table, t, username, ip_address) ==
    /\ \A key \in DOMAIN table : table[key] # <<>>
    /\ InWindow(table, user_key(username), t)
           = Len(ListOf(table, user_key(username)))
    /\ ip_address # <<>> =>
           InWindow(table, ip_key(ip_address), t)
               = Len(ListOf(table, ip_key(ip_address)))

\* C25: when _check_rate_limit or _record_failed_attempt returns, the failure
\* table holds no timestamp older than the window, counted from the
\* current_time the method has read, for the keys of the call, and no key
\* with an empty list.
C25_PurgedAfterEveryOperation ==
    [][ \A t \in Threads :
          (CheckReturns(t) \/ RecordReturns(t)) =>
              Purged(failed_login_attempts', th[t].current_time,
                     th[t].username, th[t].ip_address) ]_vars

\* C27: in every reachable state every key holds at most 5 failures inside
\* the current window.
C27_AtMostFiveFailures ==
    \A key \in DOMAIN failed_login_attempts :
        InWindow(failed_login_attempts, key, now) <= 5

\* the number of times a call was made
Times(calls, c) == Cardinality({i \in DOMAIN calls : calls[i] = c})

\* C21: in a use of get_transaction_context, a body that completes is
\* followed by one commit and no rollback, and nothing is raised when the
\* commit succeeds; a body that raises an Exception, or a commit that raises,
\* is followed by one rollback and DatabaseTransactionError is raised; commit
\* and rollback never both succeed; and close is called once, last, on every
\* connection that was obtained.
C21_CommitOrRollback ==
    last.op = "get_transaction_context" =>
        LET w == last.world
            calls == last.calls
            ran == Times(calls, "body") = 1
        IN  /\ (ran /\ w.body = "ok") =>
                   /\ Times(calls, "commit") = 1
                   /\ w.commit = "ok" =>
                          /\ last.committed /\ last.raised = "none"
                          /\ Times(calls, "rollback") = 0
            /\ ((ran /\ w.body = "raise") \/ (Times(calls, "commit") = 1 /\ w.commit = "raise")) =>
                   /\ Times(calls, "rollback") = 1
                   /\ w.rollback = "ok" => last.rolled_back
                   /\ ~last.committed
                   /\ last.raised = "DatabaseTransactionError"
            /\ ~(last.committed /\ last.rolled_back)
            /\ last.conn # "none" =>
                   /\ Times(calls, "close") = 1
                   /\ calls[Len(calls)] = "close"
                   /\ w.close = "ok" => last.closed
            /\ last.conn = "none" =>
                   /\ Times(calls, "close") = 0
                   /\ last.raised = "DatabaseTransactionError"

\* a commit has raised: the transaction was rolled back, the error raised
\* and the connection closed
C21_Witness ==
    /\ last.op = "get_transaction_context"
    /\ last.world.body = "ok" /\ last.world.commit = "raise"
    /\ last.rolled_back /\ last.closed /\ ~last.committed
    /\ last.raised = "DatabaseTransactionError"

\* the expressions that calculate_expression evaluates
Valid(expr) == expr.isstr /\ calculate_expression(expr).ok

\* C22: batch_calculate returns, for a list of valid expressions, the list
\* of their values in input order ([4, 9] for ["2 + 2", "3 * 3"]); and for
\* every list, one entry per expression, in input order, a failing expression
\* not keeping the others from being evaluated.
C22_ValuesInInputOrder ==
    (last.op = "batch_calculate" /\ last.islist) =>
        /\ Len(last.ret) = Len(last.expressions)
        /\ \A i \in DOMAIN last.expressions :
               Valid(last.expressions[i]) =>
                   last.ret[i] = PyInt(calculate_expression(last.expressions[i]).result)

\* the last n entries of a list, n between 0 and its length
Newest(l, n) == [i \in 1..n |-> l[Len(l) - n + i]]
Min(a, b) == IF a < b THEN a ELSE b

\* C26: a CalculationHistory with max_size >= 1 never holds more than
\* max_size entries, holds the most recently added entries in insertion
\* order, and get_history(limit) returns the last min(limit, size) entries,
\* the empty list for limit <= 0, and leaves the history as it was.
C26_BoundedHistory ==
    /\ Len(_history) <= max_size
    /\ _history = Newest(added, Min(max_size, Len(added)))
    /\ (last.op = "get_history" /\ ~last.limit.none) =>
           /\ last.ret = IF last.limit.n <= 0 THEN <<>>
                         ELSE Newest(last.before, Min(last.limit.n, Len(last.before)))
           /\ _history = last.before

\* a history that has dropped its oldest entry, asked for fewer entries
\* than it holds
C26_Witness ==
    /\ last.op = "get_history" /\ ~last.limit.none
    /\ Len(added) > max_size /\ max_size > 1
    /\ last.limit.n > 0 /\ last.limit.n < Len(_history)
    /\ Len(last.ret) = last.limit.n
    /\ added[Len(added)] # added[Len(added) - 1]

RECURSIVE Total(_)
Total(table) ==
    IF DOMAIN table = {} THEN 0
    ELSE LET id == CHOOSE i \in DOMAIN table : TRUE
         IN  table[id] + Total([i \in DOMAIN table \ {id} |-> table[i]])

\* C30: every call of transfer_funds either debits exactly amount from
\* from_account, credits exactly amount to to_account and commits, or raises
\* and leaves every balance as it was, which it does for a non-positive
\* amount, the same account, a missing source, insufficient funds, a missing
\* destination and a database error; after any sequence of calls the sum of
\* the balances is what it was and no balance is negative.
C30_AllOrNothing ==
    /\ \A id \in DOMAIN accounts : accounts[id] >= 0
    /\ Total(accounts) = InitialBalance + 1
    /\ last.op = "transfer_funds" =>
           LET before == last.before
               from_account == last.from_account
               to_account == last.to_account
           IN  /\ last.ok =>
                      /\ from_account \in DOMAIN before /\ to_account \in DOMAIN before
                      /\ accounts[from_account] = before[from_account] - last.amount
                      /\ accounts[to_account] = before[to_account] + last.amount
                      /\ \A id \in DOMAIN before \ {from_account, to_account} : accounts[id] = before[id]
               /\ ~last.ok => accounts = before
               /\ (\/ last.amount <= 0
                   \/ from_account = to_account
                   \/ from_account \notin DOMAIN before
                   \/ to_account \notin DOMAIN before
                   \/ before[from_account] < last.amount
                   \/ last.db.conn # "primary"
                   \/ last.db.fail_at # "nowhere") => ~last.ok

====
